---- MODULE Spec2Model ----
(***************************************************************************)
(* A model of the page_owner and OOM log analyzers of sospy.               *)
(*                                                                         *)
(*   SpecPO    src/page_owner/chk_po.py           parse_page_owner         *)
(*   SpecPI    src/page_owner/page_owner_info.py  parse_page_owner_file    *)
(*   SpecView  the truncated report tables of both page_owner tools        *)
(*   SpecOOM   src/oom/chk_oom_summary.py         extract / calculate      *)
(*                                                                         *)
(* An input file is a sequence of lines.  A line is a record holding the   *)
(* parts of its text that the regular expressions of the code look at.     *)
(* Every prefix of a file is itself a file, so every reachable state of a  *)
(* parser is the state at the end of some input.                           *)
(***************************************************************************)
EXTENDS Integers, Sequences, FiniteSets, TLC

\* ------------------------------------------------------------------------
\* Bounds
\* ------------------------------------------------------------------------

\* Longest page_owner file (in lines) that is read.
MaxLines == 5

\* Most entries of an aggregate map handed to a report.
MaxEntries == 11

\* Longest OOM log (in lines) that is read.
MaxLogLines == 3

\* Longest OOM log over the lines of whole sections.
MaxSectionLines == 4

\* ------------------------------------------------------------------------
\* Lines of a page_owner dump
\* ------------------------------------------------------------------------

\* Python's None for an integer field and for a text field.
NoneInt == -1
NoneStr == "<None>"

\* "Page allocated via order <order>, mask <mask>[, pid <pid>, tgid <tgid>
\*  (<proc>), ts <ts> ns]".  order = NoneInt: no "order N" in the line;
\* mask is "hex" (0x...), "other" (some other text) or "" (no ", mask");
\* pid = NoneInt: the line has no pid/tgid/process/ts part.
AllocLine(order, mask, pid, proc, ts) ==
    [kind |-> "alloc", order |-> order, mask |-> mask, pid |-> pid,
     tgid |-> pid, proc |-> proc, ts |-> ts, func |-> "", off |-> "",
     mod |-> ""]

\* "PFN ... Flags ...": the line that follows a header in the dump.
PfnLine ==
    [kind |-> "pfn", order |-> NoneInt, mask |-> "", pid |-> NoneInt,
     tgid |-> NoneInt, proc |-> "", ts |-> NoneInt, func |-> "", off |-> "",
     mod |-> ""]

\* " <func>+<off>" or " <func>+<off> [<mod>]": one frame of a call trace.
TraceLine(func, off, mod) ==
    [kind |-> "trace", order |-> NoneInt, mask |-> "", pid |-> NoneInt,
     tgid |-> NoneInt, proc |-> "", ts |-> NoneInt, func |-> func,
     off |-> off, mod |-> mod]

\* The empty line (after strip()).
BlankLine ==
    [kind |-> "blank", order |-> NoneInt, mask |-> "", pid |-> NoneInt,
     tgid |-> NoneInt, proc |-> "", ts |-> NoneInt, func |-> "", off |-> "",
     mod |-> ""]

\* The lines files are made of.
HdrScenario == AllocLine(3, "other", 100, "myapp", 12345)
HdrFullHex  == AllocLine(3, "hex", 100, "myapp", 12345)
HdrBash     == AllocLine(0, "hex", 7, "bash", 5)
HdrMinimal  == AllocLine(1, "hex", NoneInt, "", NoneInt)
HdrGarbage  == AllocLine(NoneInt, "", NoneInt, "", NoneInt)
TrSlabMod   == TraceLine("kmem_cache_alloc", "0x10", "mymod")
TrPlain     == TraceLine("alloc_pages", "0x20", "")
TrFaultMod  == TraceLine("do_fault", "0x5", "xfs")

LinesPO == {HdrScenario, HdrBash, HdrMinimal, HdrGarbage, PfnLine,
            TrSlabMod, TrPlain, TrFaultMod, BlankLine}

LinesPI == {HdrFullHex, HdrBash, HdrMinimal, HdrGarbage, PfnLine,
            TrSlabMod, TrPlain, TrFaultMod, BlankLine}

\* ------------------------------------------------------------------------
\* Helpers: dictionaries as functions on the set of keys present
\* ------------------------------------------------------------------------

EmptyMap == [k \in {} |-> 0]

\* d[k] with a default for a missing key (defaultdict read, dict.get).
Get(d, k, default) == IF k \in DOMAIN d THEN d[k] ELSE default

\* d with d[k] set to v.
Put(d, k, v) == [x \in (DOMAIN d) \cup {k} |-> IF x = k THEN v ELSE d[x]]

Pow2(n) == 2 ^ n

RECURSIVE SumOver(_, _)
\* Sum of f[k] over the keys k in S.
SumOver(f, S) ==
    IF S = {} THEN 0
    ELSE LET k == CHOOSE x \in S : TRUE IN f[k] + SumOver(f, S \ {k})

Last(s) == s[Len(s)]

\* ------------------------------------------------------------------------
\* chk_po.py: parse_page_owner
\* ------------------------------------------------------------------------

VARIABLES
    po_lines,            \* the lines read so far
    po_process_data,     \* process -> [allocs, pages]
    po_module_data,      \* module -> [allocs, pages]
    po_module_order,     \* the keys of module_data in insertion order
    po_module_order_2,   \* the same in a second run over the same input
    po_slab_data,        \* function -> [allocs, pages]
    po_process_module_pages, \* <<process, module>> -> [pages, allocs]
    po_calltrace_data,   \* trace key -> [count, pages]
    po_calltrace_index,  \* trace key -> trace lines
    po_skipped,          \* skipped_allocations
    po_allocations,      \* list of finalized allocations
    po_current,          \* current_allocation
    po_calltrace,        \* current_calltrace
    po_in_trace,
    po_total_allocs,
    po_valid_detected    \* valid_allocation_detected

VARIABLES
    pi_lines,            \* the lines read so far
    pi_process_data,     \* process -> [allocations, memory_kb]
    pi_by_module,        \* allocations_by_module: module -> (order -> count)
    pi_by_order,         \* allocations_by_order: order -> count
    pi_calltraces,       \* trace key -> [count, pages, pid, tgid, process, timestamp]
    pi_current,          \* current_allocation
    pi_calltrace,        \* current_calltrace
    pi_modules,          \* modules_in_trace
    pi_trace_active,
    pi_is_slab,          \* is_slab_allocation
    pi_slab_usage,       \* order -> pages
    pi_non_slab_usage,   \* order -> pages
    pi_app_slab_usage,   \* process -> pages
    pi_app_non_slab_usage,
    pi_error             \* "none", or the exception that ended the run

VARIABLES
    view_entries,        \* the aggregate map handed to a report, in dict order
    view_report          \* the Total row that was printed

VARIABLES
    oom_log,             \* the lines of the log file
    oom_pc,              \* "read", "done" or "no_events"; "idle": not run
    oom_list,            \* mem_info_list
    oom_reports          \* what main printed per entry of mem_info_list

VARIABLES
    mem_tool,            \* which of the two meminfo tools runs
    mem_file,            \* the lines of the meminfo file
    mem_cmdline,         \* the hugepage hints of proc/cmdline
    mem_verbose,         \* -v
    mem_pc,              \* the statement the run is at
    mem_meminfo,         \* meminfo
    mem_fields,          \* the list 'fields' of chk_unaccounted_memory
    mem_show_anonpages,
    mem_total,
    mem_accounted,       \* the accounted field list
    mem_unaccounted,
    mem_out,             \* what was printed
    mem_exit             \* the exit status, NoneInt while running

VARIABLES
    ev_lines,            \* the lines of the log read so far
    ev_events,           \* oom_events: start line -> lines of the event
    ev_current           \* current_event, NoneStr for None

VARIABLES
    si_lines,            \* the lines read so far
    si_slab_usage,       \* order -> pages
    si_non_slab_usage,   \* order -> pages
    si_current,          \* current_allocation
    si_is_slab,          \* is_slab_allocation
    si_in_stack_trace,
    si_error             \* "none", or the exception that ended the run

po_module_orders == <<po_module_order, po_module_order_2>>

po_vars == <<po_lines, po_process_data, po_module_data, po_module_orders,
             po_slab_data,
             po_process_module_pages, po_calltrace_data, po_calltrace_index,
             po_skipped, po_allocations, po_current, po_calltrace,
             po_in_trace, po_total_allocs, po_valid_detected>>

pi_vars == <<pi_lines, pi_process_data, pi_by_module, pi_by_order,
             pi_calltraces, pi_current, pi_calltrace, pi_modules,
             pi_trace_active, pi_is_slab, pi_slab_usage, pi_non_slab_usage,
             pi_app_slab_usage, pi_app_non_slab_usage, pi_error>>

view_vars == <<view_entries, view_report>>

oom_vars == <<oom_log, oom_pc, oom_list, oom_reports>>

mem_vars == <<mem_tool, mem_file, mem_cmdline, mem_verbose, mem_pc,
              mem_meminfo, mem_fields, mem_show_anonpages, mem_total,
              mem_accounted, mem_unaccounted, mem_out, mem_exit>>

ev_vars == <<ev_lines, ev_events, ev_current>>

si_vars == <<si_lines, si_slab_usage, si_non_slab_usage, si_current,
             si_is_slab, si_in_stack_trace, si_error>>

VARIABLES
    mc_lines,            \* the lines read so far
    mc_call_traces,      \* list of [trace, order]
    mc_current_trace,
    mc_in_trace,
    mc_order,
    mc_pc,               \* "read" or "done"
    mc_most_common       \* most_common_traces

mc_vars == <<mc_lines, mc_call_traces, mc_current_trace, mc_in_trace, mc_order, mc_pc, mc_most_common>>

VARIABLES
    rw_count,            \* the count given on the command line
    rw_owner,            \* the owner given on the command line
    rw_pc,               \* "start" or "done"; "idle": not run
    rw_decoded,          \* the fields decoded from count and owner
    rw_issues            \* integrity_issues

rw_vars == <<rw_count, rw_owner, rw_pc, rw_decoded, rw_issues>>

vars == <<po_vars, pi_vars, view_vars, oom_vars, mem_vars, ev_vars, si_vars, mc_vars, rw_vars>>

\* current_allocation = {}: has = FALSE, no 'order' key.
PO_NoAllocation ==
    [has |-> FALSE, order |-> 0, pid |-> NoneInt, tgid |-> NoneInt,
     process |-> "Unknown", ts |-> NoneInt]

PO_Init ==
    /\ po_lines = <<>>
    /\ po_process_data = EmptyMap
    /\ po_module_data = EmptyMap
    /\ po_module_order = <<>>
    /\ po_module_order_2 = <<>>
    /\ po_slab_data = EmptyMap
    /\ po_process_module_pages = EmptyMap
    /\ po_calltrace_data = EmptyMap
    /\ po_calltrace_index = EmptyMap
    /\ po_skipped = [missing_match |-> 0, incomplete_trace |-> 0,
                     invalid_order |-> 0]
    /\ po_allocations = <<>>
    /\ po_current = PO_NoAllocation
    /\ po_calltrace = <<>>
    /\ po_in_trace = FALSE
    /\ po_total_allocs = 0
    /\ po_valid_detected = FALSE

\* line.startswith("Page allocated")
StartsWithPageAllocated(l) == l.kind = "alloc"

\* A header pattern that, as the one of page_owner_info.py, wants a
\* hexadecimal mask.
PO_MatchFull_HexMaskOnly(l) ==
    l.order # NoneInt /\ l.mask = "hex" /\ l.pid # NoneInt

\* re.search(r"order (\d+), mask .*?, pid (\d+), tgid (\d+) \((.*?)\), ts (\d+)")
PO_MatchFull(l) == l.order # NoneInt /\ l.mask # "" /\ l.pid # NoneInt

\* re.search(r"order (\d+), mask")
PO_MatchType1(l) == l.order # NoneInt /\ l.mask # ""

\* re.search(r'\[([^\]]+)\]', trace_line): the module of a trace line.
PO_HasModule(l) == l.mod # ""

\* The words of r'kmalloc|slab|cache|kfree' occur in these names.
SlabWordNames == {"kmem_cache_alloc"}

\* re.search(r'kmalloc|slab|cache|kfree', trace_line, re.IGNORECASE)
PO_SlabMatch(l) == l.func \in SlabWordNames \/ l.mod \in SlabWordNames

\* trace_line.strip().split('+')[0]
PO_SlabFunc(l) == l.func

\* hashlib.sha256("\n".join(current_calltrace)).hexdigest(): lines hold no
\* newline, so the joined text determines the sequence of lines, and the
\* digest is taken to separate the texts that occur.
PO_TraceKey(trace) == trace

\* d[k]['allocs'] += 1; d[k]['pages'] += pages on a defaultdict.
PO_Add(d, k, pages) ==
    LET old == Get(d, k, [allocs |-> 0, pages |-> 0])
    IN  Put(d, k, [allocs |-> old.allocs + 1, pages |-> old.pages + pages])

\* for line in f: line = line.strip() -- the next line of the file is read.
PO_Read(l) ==
    /\ Len(po_lines) < MaxLines
    /\ po_lines' = Append(po_lines, l)
    /\ UNCHANGED <<pi_vars, view_vars, oom_vars, mem_vars, ev_vars, si_vars, mc_vars, rw_vars>>

\* A header that counts its process at once, as page_owner_info.py does.
PO_HeaderFull_CountsProcess ==
    \E l \in LinesPO :
        /\ PO_Read(l)
        /\ StartsWithPageAllocated(l)
        /\ PO_MatchFull(l)
        /\ po_valid_detected' = TRUE
        /\ po_current' = [has |-> TRUE, order |-> l.order, pid |-> l.pid,
                          tgid |-> l.tgid, process |-> l.proc, ts |-> l.ts]
        /\ po_in_trace' = TRUE
        /\ po_calltrace' = <<>>
        /\ po_total_allocs' = po_total_allocs + 1
        /\ po_process_data' = PO_Add(po_process_data, l.proc, Pow2(l.order))
        /\ UNCHANGED <<po_module_data, po_module_orders, po_slab_data,
                       po_process_module_pages, po_calltrace_data,
                       po_calltrace_index, po_skipped, po_allocations>>

\* Lines 27-41: a header with pid, tgid, process and timestamp.
PO_HeaderFull ==
    \E l \in LinesPO :
        /\ PO_Read(l)
        /\ StartsWithPageAllocated(l)
        /\ PO_MatchFull(l)
        /\ po_valid_detected' = TRUE
        /\ po_current' = [has |-> TRUE, order |-> l.order, pid |-> l.pid,
                          tgid |-> l.tgid, process |-> l.proc, ts |-> l.ts]
        /\ po_in_trace' = TRUE
        /\ po_calltrace' = <<>>
        /\ po_total_allocs' = po_total_allocs + 1
        /\ UNCHANGED <<po_process_data, po_module_data, po_module_orders, po_slab_data,
                       po_process_module_pages, po_calltrace_data,
                       po_calltrace_index, po_skipped, po_allocations>>

\* Lines 42-60: a header with "order N, mask" only.  int() of (\d+) never
\* raises, so the ValueError branch of lines 47-50 is never taken.
PO_HeaderMinimal ==
    \E l \in LinesPO :
        /\ PO_Read(l)
        /\ StartsWithPageAllocated(l)
        /\ ~PO_MatchFull(l)
        /\ PO_MatchType1(l)
        /\ po_valid_detected' = TRUE
        /\ po_current' = [has |-> TRUE, order |-> l.order, pid |-> -1,
                          tgid |-> -1, process |-> "Unknown", ts |-> -1]
        /\ po_in_trace' = TRUE
        /\ po_calltrace' = <<>>
        /\ po_total_allocs' = po_total_allocs + 1
        /\ UNCHANGED <<po_process_data, po_module_data, po_module_orders, po_slab_data,
                       po_process_module_pages, po_calltrace_data,
                       po_calltrace_index, po_skipped, po_allocations>>

\* Lines 61-63 without the reset of in_trace.
PO_HeaderNoMatch_KeepsTrace ==
    \E l \in LinesPO :
        /\ PO_Read(l)
        /\ StartsWithPageAllocated(l)
        /\ ~PO_MatchFull(l)
        /\ ~PO_MatchType1(l)
        /\ po_valid_detected' = TRUE
        /\ po_skipped' = [po_skipped EXCEPT !.missing_match = @ + 1]
        /\ UNCHANGED <<po_process_data, po_module_data, po_module_orders, po_slab_data,
                       po_process_module_pages, po_calltrace_data,
                       po_calltrace_index, po_allocations, po_current,
                       po_calltrace, po_total_allocs, po_in_trace>>

\* Lines 61-63: a header that matches neither pattern.
PO_HeaderNoMatch ==
    \E l \in LinesPO :
        /\ PO_Read(l)
        /\ StartsWithPageAllocated(l)
        /\ ~PO_MatchFull(l)
        /\ ~PO_MatchType1(l)
        /\ po_valid_detected' = TRUE
        /\ po_skipped' = [po_skipped EXCEPT !.missing_match = @ + 1]
        /\ po_in_trace' = FALSE
        /\ UNCHANGED <<po_process_data, po_module_data, po_module_orders, po_slab_data,
                       po_process_module_pages, po_calltrace_data,
                       po_calltrace_index, po_allocations, po_current,
                       po_calltrace, po_total_allocs>>

\* A PFN line that closes the trace without counting it.
PO_Pfn_EndsTrace ==
    \E l \in LinesPO :
        /\ PO_Read(l)
        /\ l.kind = "pfn"
        /\ po_in_trace' = FALSE
        /\ UNCHANGED <<po_process_data, po_module_data, po_module_orders, po_slab_data,
                       po_process_module_pages, po_calltrace_data,
                       po_calltrace_index, po_skipped, po_allocations,
                       po_current, po_calltrace,
                       po_total_allocs, po_valid_detected>>

\* Lines 64-65: a PFN line changes nothing.
PO_Pfn ==
    \E l \in LinesPO :
        /\ PO_Read(l)
        /\ l.kind = "pfn"
        /\ UNCHANGED <<po_process_data, po_module_data, po_module_orders, po_slab_data,
                       po_process_module_pages, po_calltrace_data,
                       po_calltrace_index, po_skipped, po_allocations,
                       po_current, po_calltrace, po_in_trace,
                       po_total_allocs, po_valid_detected>>

\* Lines 66-67: a non-empty line inside a trace.
PO_TraceLine ==
    \E l \in LinesPO :
        /\ PO_Read(l)
        /\ l.kind = "trace"
        /\ po_in_trace
        /\ po_calltrace' = Append(po_calltrace, l)
        /\ UNCHANGED <<po_process_data, po_module_data, po_module_orders, po_slab_data,
                       po_process_module_pages, po_calltrace_data,
                       po_calltrace_index, po_skipped, po_allocations,
                       po_current, po_in_trace, po_total_allocs,
                       po_valid_detected>>

\* Lines 79-84: the set of modules named in the trace.
PO_UniqueModules(trace) ==
    {trace[i].mod : i \in {j \in 1..Len(trace) : PO_HasModule(trace[j])}}

RECURSIVE PO_SlabLoop(_, _, _, _)
\* Lines 80, 86-89: every trace line that names a slab word adds the
\* allocation to slab_data under the function of that line.
PO_SlabLoop(slab, trace, i, pages) ==
    IF i > Len(trace) THEN slab
    ELSE PO_SlabLoop(IF PO_SlabMatch(trace[i])
                       THEN PO_Add(slab, PO_SlabFunc(trace[i]), pages)
                       ELSE slab,
                     trace, i + 1, pages)

\* The orders in which 'for module in unique_modules' (line 91) can hand
\* out the modules of the set: a set of strings is iterated in the order
\* of the hashes, which are salted anew for every run of the interpreter.
PO_SetOrders(S) ==
    {s \in [1..Cardinality(S) -> S] : \A x \in S : \E i \in DOMAIN s : s[i] = x}

\* Lines 91-93: the keys of module_data after the loop has met the
\* modules in the order 'iterated'; a new key goes to the end.
PO_ModuleOrder(order, iterated) ==
    order \o SelectSeq(iterated, LAMBDA x : \A i \in DOMAIN order : order[i] # x)

\* A loop that adds the pages but does not count the allocation.
PO_ModuleLoop_PagesOnly(moddata, mods, pages) ==
    [m \in (DOMAIN moddata) \cup mods |->
        LET old == Get(moddata, m, [allocs |-> 0, pages |-> 0])
        IN  IF m \in mods
            THEN [allocs |-> old.allocs, pages |-> old.pages + pages]
            ELSE old]

\* Lines 91-93: every module of the set gets the allocation once.
PO_ModuleLoop(moddata, mods, pages) ==
    [m \in (DOMAIN moddata) \cup mods |->
        IF m \in mods
        THEN LET old == Get(moddata, m, [allocs |-> 0, pages |-> 0])
             IN  [allocs |-> old.allocs + 1, pages |-> old.pages + pages]
        ELSE moddata[m]]

\* Lines 94-95.
PO_ProcessModuleLoop(pmp, proc, mods, pages) ==
    LET keys == {<<proc, m>> : m \in mods}
    IN  [k \in (DOMAIN pmp) \cup keys |->
            IF k \in keys
            THEN LET old == Get(pmp, k, [pages |-> 0, allocs |-> 0])
                 IN  [pages |-> old.pages + pages, allocs |-> old.allocs + 1]
            ELSE pmp[k]]

\* Lines 68-110: a blank line inside a trace finalizes the allocation.
\* current_allocation holds 'order' whenever in_trace is set, so the
\* invalid_order branch of lines 69-72 is taken only when it does not.
PO_EndOfTrace ==
    \E l \in LinesPO :
        /\ PO_Read(l)
        /\ l.kind = "blank"
        /\ po_in_trace
        /\ IF ~po_current.has
           THEN /\ po_skipped' = [po_skipped EXCEPT !.invalid_order = @ + 1]
                /\ po_in_trace' = FALSE
                /\ UNCHANGED <<po_process_data, po_module_data, po_module_orders, po_slab_data,
                               po_process_module_pages, po_calltrace_data,
                               po_calltrace_index, po_allocations>>
           ELSE LET pages == Pow2(po_current.order)
                    process_name == po_current.process
                    unique_modules == PO_UniqueModules(po_calltrace)
                    trace_key == PO_TraceKey(po_calltrace)
                    oldct == Get(po_calltrace_data, trace_key,
                                 [count |-> 0, pages |-> 0])
                IN  /\ po_process_data' =
                           PO_Add(po_process_data, process_name, pages)
                    /\ po_slab_data' =
                           PO_SlabLoop(po_slab_data, po_calltrace, 1, pages)
                    /\ po_module_data' =
                           PO_ModuleLoop(po_module_data, unique_modules, pages)
                    /\ \E iterated \in PO_SetOrders(unique_modules) :
                           po_module_order' =
                               PO_ModuleOrder(po_module_order, iterated)
                    /\ \E iterated \in PO_SetOrders(unique_modules) :
                           po_module_order_2' =
                               PO_ModuleOrder(po_module_order_2, iterated)
                    /\ po_process_module_pages' =
                           PO_ProcessModuleLoop(po_process_module_pages,
                                                process_name, unique_modules,
                                                pages)
                    /\ po_calltrace_index' =
                           IF trace_key \in DOMAIN po_calltrace_index
                           THEN po_calltrace_index
                           ELSE Put(po_calltrace_index, trace_key, po_calltrace)
                    /\ po_calltrace_data' =
                           Put(po_calltrace_data, trace_key,
                               [count |-> oldct.count + 1,
                                pages |-> oldct.pages + pages])
                    /\ po_allocations' =
                           Append(po_allocations,
                                  [process |-> process_name,
                                   trace_key |-> trace_key, pages |-> pages])
                    /\ po_in_trace' = FALSE
                    /\ po_skipped' = po_skipped
        /\ UNCHANGED <<po_current, po_calltrace, po_total_allocs,
                       po_valid_detected>>

\* Lines 111-114: a blank line outside a trace.  The branch is entered with
\* in_trace false only, so its increment of incomplete_trace never runs.
PO_BlankIdle ==
    \E l \in LinesPO :
        /\ PO_Read(l)
        /\ l.kind = "blank"
        /\ ~po_in_trace
        /\ po_skipped' = IF po_in_trace
                         THEN [po_skipped EXCEPT !.incomplete_trace = @ + 1]
                         ELSE po_skipped
        /\ po_in_trace' = FALSE
        /\ UNCHANGED <<po_process_data, po_module_data, po_module_orders, po_slab_data,
                       po_process_module_pages, po_calltrace_data,
                       po_calltrace_index, po_allocations, po_current,
                       po_calltrace, po_total_allocs, po_valid_detected>>

\* Lines 66-111: a non-empty line outside a trace takes no branch.
PO_IgnoredLine ==
    \E l \in LinesPO :
        /\ PO_Read(l)
        /\ l.kind = "trace"
        /\ ~po_in_trace
        /\ UNCHANGED <<po_process_data, po_module_data, po_module_orders, po_slab_data,
                       po_process_module_pages, po_calltrace_data,
                       po_calltrace_index, po_skipped, po_allocations,
                       po_current, po_calltrace, po_in_trace,
                       po_total_allocs, po_valid_detected>>

NextPO ==
    \/ PO_HeaderFull
    \/ PO_HeaderMinimal
    \/ PO_HeaderNoMatch
    \/ PO_Pfn
    \/ PO_TraceLine
    \/ PO_EndOfTrace
    \/ PO_BlankIdle
    \/ PO_IgnoredLine

\* ------------------------------------------------------------------------
\* page_owner_info.py: parse_page_owner_file
\* ------------------------------------------------------------------------

\* current_allocation = {} (has = FALSE), or the dictionary of line 60.
PI_Allocation(has, order, pid, tgid, process, timestamp) ==
    [has |-> has, order |-> order, pid |-> pid, tgid |-> tgid,
     process |-> process, timestamp |-> timestamp]

PI_NoAllocation ==
    PI_Allocation(FALSE, NoneInt, NoneInt, NoneInt, NoneStr, NoneInt)

PI_Init ==
    /\ pi_lines = <<>>
    /\ pi_process_data = EmptyMap
    /\ pi_by_module = EmptyMap
    /\ pi_by_order = EmptyMap
    /\ pi_calltraces = EmptyMap
    /\ pi_current = PI_NoAllocation
    /\ pi_calltrace = <<>>
    /\ pi_modules = {}
    /\ pi_trace_active = FALSE
    /\ pi_is_slab = FALSE
    /\ pi_slab_usage = EmptyMap
    /\ pi_non_slab_usage = EmptyMap
    /\ pi_app_slab_usage = EmptyMap
    /\ pi_app_non_slab_usage = EmptyMap
    /\ pi_error = "none"

\* re.search(r"order (\d+), mask (0x[0-9a-fA-F]+(?:\([^\)]*\))?)
\*             (?:, pid (\d+), tgid (\d+) \((.+?)\), ts (\d+) ns)?", line)
PI_Match(l) == l.order # NoneInt /\ l.mask = "hex"

\* The names that hold "alloc".
AllocNames == {"kmem_cache_alloc", "alloc_pages"}

\* re.search(r"(\S*alloc\S*)\s+\[([a-zA-Z0-9_]+)\]", line)
PI_AllocMatch(l) == l.kind = "trace" /\ l.func \in AllocNames /\ l.mod # ""

\* SLAB_FUNCTIONS, lines 9-18, as far as they occur in the lines.
SLAB_FUNCTIONS == {"kmem_cache_alloc"}

\* any(func in line for func in SLAB_FUNCTIONS)
PI_SlabLine(l) == l.func \in SLAB_FUNCTIONS \/ l.mod \in SLAB_FUNCTIONS

\* for line in lines: line = line.strip() -- while no exception was raised.
PI_Read(l) ==
    /\ pi_error = "none"
    /\ Len(pi_lines) < MaxLines
    /\ pi_lines' = Append(pi_lines, l)
    /\ UNCHANGED <<po_vars, view_vars, oom_vars, mem_vars, ev_vars, si_vars, mc_vars, rw_vars>>

\* Lines 58-102: a header that matches; the process is counted at once.
PI_Header ==
    \E l \in LinesPI :
        /\ PI_Read(l)
        /\ StartsWithPageAllocated(l)
        /\ PI_Match(l)
        /\ LET process_name == IF l.pid # NoneInt THEN l.proc ELSE NoneStr
               pages == Pow2(l.order)
               memory_kb == pages * 4
               old == Get(pi_process_data, process_name,
                          [allocations |-> 0, memory_kb |-> 0])
           IN  /\ pi_current' = PI_Allocation(TRUE, l.order, l.pid, l.tgid,
                                              process_name, l.ts)
               /\ pi_process_data' =
                      Put(pi_process_data, process_name,
                          [allocations |-> old.allocations + 1,
                           memory_kb |-> old.memory_kb + memory_kb])
        /\ pi_trace_active' = TRUE
        /\ pi_is_slab' = FALSE
        /\ pi_modules' = {}
        /\ UNCHANGED <<pi_by_module, pi_by_order, pi_calltraces, pi_calltrace,
                       pi_slab_usage, pi_non_slab_usage, pi_app_slab_usage,
                       pi_app_non_slab_usage, pi_error>>

\* Lines 58-74: a header that does not match leaves current_allocation
\* with every field None and goes on to the next line.
PI_HeaderNoMatch ==
    \E l \in LinesPI :
        /\ PI_Read(l)
        /\ StartsWithPageAllocated(l)
        /\ ~PI_Match(l)
        /\ pi_current' = PI_Allocation(TRUE, NoneInt, NoneInt, NoneInt,
                                       NoneStr, NoneInt)
        /\ UNCHANGED <<pi_process_data, pi_by_module, pi_by_order,
                       pi_calltraces, pi_calltrace, pi_modules,
                       pi_trace_active, pi_is_slab, pi_slab_usage,
                       pi_non_slab_usage, pi_app_slab_usage,
                       pi_app_non_slab_usage, pi_error>>

\* Lines 104-112: a PFN line counts the order of current_allocation.
PI_Pfn ==
    \E l \in LinesPI :
        /\ PI_Read(l)
        /\ l.kind = "pfn"
        /\ pi_by_order' =
               IF pi_current.has
               THEN Put(pi_by_order, pi_current.order,
                        Get(pi_by_order, pi_current.order, 0) + 1)
               ELSE pi_by_order
        /\ UNCHANGED <<pi_process_data, pi_by_module, pi_calltraces,
                       pi_current, pi_calltrace, pi_modules, pi_trace_active,
                       pi_is_slab, pi_slab_usage, pi_non_slab_usage,
                       pi_app_slab_usage, pi_app_non_slab_usage, pi_error>>

\* Lines 114-124: a non-empty line while a trace is active.
PI_TraceLine ==
    \E l \in LinesPI :
        /\ PI_Read(l)
        /\ l.kind = "trace"
        /\ pi_trace_active
        /\ pi_modules' = IF PI_AllocMatch(l) THEN pi_modules \cup {l.mod}
                         ELSE pi_modules
        /\ pi_calltrace' = Append(pi_calltrace, l)
        /\ pi_is_slab' = (pi_is_slab \/ PI_SlabLine(l))
        /\ UNCHANGED <<pi_process_data, pi_by_module, pi_by_order,
                       pi_calltraces, pi_current, pi_trace_active,
                       pi_slab_usage, pi_non_slab_usage, pi_app_slab_usage,
                       pi_app_non_slab_usage, pi_error>>

\* "\n".join(current_calltrace): lines hold no newline, so the joined text
\* determines the sequence of lines.
PI_TraceKey(trace) == trace

\* Lines 141-142.
PI_ModuleLoop(bymod, mods, order) ==
    [m \in (DOMAIN bymod) \cup mods |->
        IF m \in mods
        THEN LET old == Get(bymod, m, EmptyMap)
             IN  Put(old, order, Get(old, order, 0) + 1)
        ELSE bymod[m]]

\* usage[key] += pages on a defaultdict(int).
PI_AddPages(usage, key, pages) == Put(usage, key, Get(usage, key, 0) + pages)

\* Lines 126-165: a blank line while a trace is active, order known.
PI_EndOfTrace ==
    \E l \in LinesPI :
        /\ PI_Read(l)
        /\ l.kind = "blank"
        /\ pi_trace_active
        /\ pi_current.order # NoneInt
        /\ LET trace_key == PI_TraceKey(pi_calltrace)
               order == pi_current.order
               pages == Pow2(order)
               process_name == pi_current.process
               old == Get(pi_calltraces, trace_key,
                          [count |-> 0, pages |-> 0])
           IN  /\ pi_calltraces' =
                      Put(pi_calltraces, trace_key,
                          [count |-> old.count + 1,
                           pages |-> old.pages + pages,
                           pid |-> pi_current.pid,
                           tgid |-> pi_current.tgid,
                           process |-> IF process_name # NoneStr
                                       THEN process_name ELSE "Unknown",
                           timestamp |-> pi_current.timestamp])
               /\ pi_by_module' = PI_ModuleLoop(pi_by_module, pi_modules, order)
               /\ IF pi_is_slab
                  THEN /\ pi_slab_usage' =
                              PI_AddPages(pi_slab_usage, order, pages)
                       /\ pi_app_slab_usage' =
                              IF process_name # NoneStr
                              THEN PI_AddPages(pi_app_slab_usage,
                                               process_name, pages)
                              ELSE pi_app_slab_usage
                       /\ UNCHANGED <<pi_non_slab_usage,
                                      pi_app_non_slab_usage>>
                  ELSE /\ pi_non_slab_usage' =
                              PI_AddPages(pi_non_slab_usage, order, pages)
                       /\ pi_app_non_slab_usage' =
                              IF process_name # NoneStr
                              THEN PI_AddPages(pi_app_non_slab_usage,
                                               process_name, pages)
                              ELSE pi_app_non_slab_usage
                       /\ UNCHANGED <<pi_slab_usage, pi_app_slab_usage>>
        /\ pi_calltrace' = <<>>
        /\ pi_modules' = {}
        /\ pi_trace_active' = FALSE
        /\ UNCHANGED <<pi_process_data, pi_by_order, pi_current, pi_is_slab,
                       pi_error>>

\* Line 129: 1 << current_allocation.get('order', 0) with 'order' None
\* raises TypeError, which nothing catches.
PI_EndOfTraceRaises ==
    \E l \in LinesPI :
        /\ PI_Read(l)
        /\ l.kind = "blank"
        /\ pi_trace_active
        /\ pi_current.order = NoneInt
        /\ pi_error' = "TypeError"
        /\ UNCHANGED <<pi_process_data, pi_by_module, pi_by_order,
                       pi_calltraces, pi_current, pi_calltrace, pi_modules,
                       pi_trace_active, pi_is_slab, pi_slab_usage,
                       pi_non_slab_usage, pi_app_slab_usage,
                       pi_app_non_slab_usage>>

\* Lines 114: any other line while no trace is active takes no branch.
PI_IgnoredLine ==
    \E l \in LinesPI :
        /\ PI_Read(l)
        /\ l.kind \in {"trace", "blank"}
        /\ ~pi_trace_active
        /\ UNCHANGED <<pi_process_data, pi_by_module, pi_by_order,
                       pi_calltraces, pi_current, pi_calltrace, pi_modules,
                       pi_trace_active, pi_is_slab, pi_slab_usage,
                       pi_non_slab_usage, pi_app_slab_usage,
                       pi_app_non_slab_usage, pi_error>>

\* page_owner_info.py lines 180-198: rows of the top_n processes by
\* memory, then totals over all processes.  f"{process:<20}" raises
\* TypeError for the key None.  (Which of several equal keys is displayed
\* depends on dict order; it matters only for more than top_n keys.)
show_allocations_by_process(process_data, top_n) ==
    LET keys == DOMAIN process_data
        Displayed(k) ==
            Cardinality({j \in keys : process_data[j].memory_kb
                                        > process_data[k].memory_kb}) < top_n
        allocations == [k \in keys |-> process_data[k].allocations]
        memory_kb == [k \in keys |-> process_data[k].memory_kb]
    IN  IF NoneStr \in keys /\ Displayed(NoneStr)
        THEN [kind |-> "TypeError", total_allocations |-> 0,
              total_memory_kb |-> 0]
        ELSE [kind |-> "printed",
              total_allocations |-> SumOver(allocations, keys),
              total_memory_kb |-> SumOver(memory_kb, keys)]

\* page_owner_info.py lines 271-287: sorted(allocations.items()) and
\* 2 ** order raise TypeError for the key None.
show_allocations_by_order(allocations) ==
    LET keys == DOMAIN allocations
        memory_kb == [o \in keys |-> allocations[o] * (4 * Pow2(o))]
    IN  IF NoneInt \in keys
        THEN [kind |-> "TypeError", total_allocations |-> 0,
              total_memory_kb |-> 0]
        ELSE [kind |-> "printed",
              total_allocations |-> SumOver(allocations, keys),
              total_memory_kb |-> SumOver(memory_kb, keys)]

\* -p [N] of page_owner_info.py, line 419: const=10.
PI_TopProcesses == 10

NextPI ==
    \/ PI_Header
    \/ PI_HeaderNoMatch
    \/ PI_Pfn
    \/ PI_TraceLine
    \/ PI_EndOfTrace
    \/ PI_EndOfTraceRaises
    \/ PI_IgnoredLine

\* ------------------------------------------------------------------------
\* Report tables: chk_po.py show_top, show_processes_for_module and
\* page_owner_info.py show_allocations_by_module
\* ------------------------------------------------------------------------

\* top_n of show_top and show_processes_for_module, and the [:10] of
\* show_allocations_by_module.
TopN == 10

\* An entry of an aggregate map: view_entries[i] is the i-th key inserted,
\* key i (with module mod for process_module_pages), holding count
\* allocations of the given order.
EntryVals == {[order |-> 3, count |-> 1, mod |-> "mymod"],
              [order |-> 0, count |-> 2, mod |-> "xfs"]}

ViewInputs == UNION {[1..n -> EntryVals] : n \in 0..MaxEntries}

View_Init ==
    /\ view_entries \in ViewInputs
    /\ view_report = [kind |-> "none", module |-> "", total_allocs |-> 0,
                      total_pages |-> 0]

\* The stats of an entry: {'allocs': ..., 'pages': ...}.
View_Stats(e) == [allocs |-> e.count, pages |-> e.count * Pow2(e.order)]

\* sorted(items, key=..., reverse=True)[:n]: the indices of the n entries
\* with the largest keys; sorted() is stable, so of two equal keys the one
\* inserted first comes first.
TopIndices(keys, idx, n) ==
    {i \in idx :
        Cardinality({j \in idx : \/ keys[j] > keys[i]
                                 \/ (keys[j] = keys[i] /\ j < i)}) < n}

\* chk_po.py lines 129-143: the Total row adds up the rows displayed.
show_top(entries, top_n) ==
    LET idx == 1..Len(entries)
        pages == [i \in idx |-> View_Stats(entries[i]).pages]
        allocs == [i \in idx |-> View_Stats(entries[i]).allocs]
        sorted_items == TopIndices(pages, idx, top_n)
    IN  [kind |-> "show_top", module |-> "",
         total_allocs |-> SumOver(allocs, sorted_items),
         total_pages |-> SumOver(pages, sorted_items)]

\* chk_po.py lines 173-196: the entries of one module, then as show_top.
show_processes_for_module(entries, module_name, top_n) ==
    LET aggregated == {i \in 1..Len(entries) : entries[i].mod = module_name}
        pages == [i \in aggregated |-> View_Stats(entries[i]).pages]
        allocs == [i \in aggregated |-> View_Stats(entries[i]).allocs]
        sorted_items == TopIndices(pages, aggregated, top_n)
    IN  IF aggregated = {}
        THEN [kind |-> "no_allocations", module |-> module_name,
              total_allocs |-> 0, total_pages |-> 0]
        ELSE [kind |-> "show_processes_for_module", module |-> module_name,
              total_allocs |-> SumOver(allocs, sorted_items),
              total_pages |-> SumOver(pages, sorted_items)]

\* page_owner_info.py lines 240-269: memory per module in kB, the ten
\* largest, and a Total row over those ten.  The conversions to and from
\* the display unit scale by powers of two; total_pages is the Total row
\* in pages (memory_kb / 4).
show_allocations_by_module(entries) ==
    LET idx == 1..Len(entries)
        module_allocations == [i \in idx |-> entries[i].count]
        module_memory_kb ==
            [i \in idx |-> entries[i].count * (4 * Pow2(entries[i].order))]
        top_modules == TopIndices(module_memory_kb, idx, 10)
    IN  [kind |-> "show_allocations_by_module", module |-> "",
         total_allocs |-> SumOver(module_allocations, top_modules),
         total_pages |-> SumOver(module_memory_kb, top_modules) \div 4]

\* chk_po.py main, lines 243-247: show_top(process_data, "Processes", unit)
View_ShowTop ==
    /\ view_report.kind = "none"
    /\ view_report' = show_top(view_entries, TopN)
    /\ UNCHANGED <<view_entries, po_vars, pi_vars, oom_vars, mem_vars, ev_vars, si_vars, mc_vars, rw_vars>>

\* chk_po.py main, line 238.
View_ShowProcessesForModule ==
    /\ view_report.kind = "none"
    /\ \E module_name \in {"mymod", "xfs"} :
           view_report' =
               show_processes_for_module(view_entries, module_name, TopN)
    /\ UNCHANGED <<view_entries, po_vars, pi_vars, oom_vars, mem_vars, ev_vars, si_vars, mc_vars, rw_vars>>

\* page_owner_info.py main, line 479.
View_ShowAllocationsByModule ==
    /\ view_report.kind = "none"
    /\ view_report' = show_allocations_by_module(view_entries)
    /\ UNCHANGED <<view_entries, po_vars, pi_vars, oom_vars, mem_vars, ev_vars, si_vars, mc_vars, rw_vars>>

NextView ==
    \/ View_ShowTop
    \/ View_ShowProcessesForModule
    \/ View_ShowAllocationsByModule

\* ------------------------------------------------------------------------
\* chk_oom_summary.py: extract_memory_info, calculate_memory_usage, main
\* ------------------------------------------------------------------------

\* A line of the log: the anchor line (it contains "Mem-Info"), a line of
\* "label:value" fields in the order they are written, or a per-node
\* hugepage line "Node N hugepages_total=.. hugepages_free=.. ..kB".
AnchorLine == [kind |-> "anchor", fields |-> <<>>]
FieldsLine(fields) == [kind |-> "fields", fields |-> fields]
Field(label, value) == [label |-> label, value |-> value]
NodeLine(total, free, size) ==
    [kind |-> "node",
     fields |-> <<Field("hugepages_total", total),
                  Field("hugepages_free", free),
                  Field("hugepages_surp", 0),
                  Field("hugepages_size", size)>>]

\* A per-node line without its hugepages_size field, and a line that
\* carries the three hugepage fields but does not start with "Node N".
NodeLineNoSize ==
    [kind |-> "node",
     fields |-> <<Field("hugepages_total", 4), Field("hugepages_free", 1),
                  Field("hugepages_surp", 0)>>]
HugeFieldsLine ==
    FieldsLine(<<Field("hugepages_total", 8), Field("hugepages_free", 0),
                 Field("hugepages_size", 2048)>>)

\* The subtraction without its free_cma term.
SubtractedFields_WithoutFreeCma ==
    {"active_anon", "inactive_anon", "isolated_anon", "pagecache",
     "swapcache", "slab_reclaimable", "slab_unreclaimable", "pagetables",
     "free", "reserved", "unevictable", "bounce"}

\* The fields that calculate_memory_usage subtracts, lines 153-166.
SubtractedFields ==
    {"active_anon", "inactive_anon", "isolated_anon", "pagecache",
     "swapcache", "slab_reclaimable", "slab_unreclaimable", "pagetables",
     "free", "reserved", "unevictable", "bounce", "free_cma"}

\* Lines 168-201: the fields that the verbose formula names and prints,
\* in its order; "Huge pages" comes last and is not a field of memory_info.
OOM_FormulaFields ==
    <<"active_anon", "inactive_anon", "isolated_anon", "pagecache",
      "swapcache", "slab_reclaimable", "slab_unreclaimable", "pagetables",
      "free", "reserved", "unevictable", "bounce", "free_cma">>

\* Fields of the pattern table that it does not subtract.
OtherFields ==
    {"active_file", "inactive_file", "shmem", "free_pcp", "total_swap",
     "free_swap"}

\* config.py lines 4-35: the keys of patterns.
PatternKeys ==
    {"active_anon", "inactive_anon", "isolated_anon", "active_file",
     "inactive_file", "isolated_file", "unevictable", "dirty", "writeback",
     "slab_reclaimable", "slab_unreclaimable", "mapped", "shmem",
     "pagetables", "bounce", "free", "free_pcp", "free_cma", "pagecache",
     "swapcache", "reserved", "total_pages_ram", "free_swap", "total_swap",
     "hugepages_total", "hugepages_free", "hugepages_surp", "hugepages_size"}

\* The value written for a field in the logs that are read.
SampleValue(label) ==
    CASE label = "active_anon"   -> 300000
      [] label = "inactive_anon" -> 100000
      [] label = "free"          -> 200000
      [] label = "reserved"      -> 5000
      [] label = "total_swap"    -> 8192
      [] label = "free_swap"     -> 4096
      [] OTHER                   -> 1000

ScenarioLine ==
    FieldsLine(<<Field("active_anon", 300000), Field("inactive_anon", 100000),
                 Field("free", 200000), Field("total_pages_ram", 1000000),
                 Field("reserved", 5000)>>)

\* The fields that occur on a line of their own in the logs that are read.
OOMSampleFields ==
    {"active_anon", "inactive_anon", "isolated_anon", "pagecache",
     "swapcache", "slab_reclaimable", "slab_unreclaimable", "pagetables",
     "free", "reserved", "unevictable", "bounce", "free_cma", "active_file",
     "inactive_file", "shmem", "free_pcp", "total_swap", "free_swap"}

\* "Free swap  = 4097kB" and "Total swap = 8190kB": amounts that are not
\* multiples of the page size.
SwapLine == FieldsLine(<<Field("free_swap", 4097), Field("total_swap", 8190)>>)

OOMLines ==
    {AnchorLine, NodeLine(2, 1, 2048), ScenarioLine, SwapLine,
     FieldsLine(<<Field("total_pages_ram", 1000000)>>),
     FieldsLine(<<Field("total_pages_ram", 0)>>)}
    \cup {FieldsLine(<<Field(f, SampleValue(f))>>) : f \in OOMSampleFields}

OOMInputs == UNION {[1..n -> OOMLines] : n \in 0..MaxLogLines}

\* Longer logs over fewer lines: several sections, several node lines.
OOMSectionLines ==
    {AnchorLine, ScenarioLine, NodeLine(2, 1, 2048), NodeLine(3, 5, 1024),
     NodeLineNoSize, HugeFieldsLine}

OOMSectionInputs ==
    UNION {[1..n -> OOMSectionLines] : n \in 0..MaxSectionLines}

OOM_Init ==
    /\ oom_log \in OOMInputs \cup OOMSectionInputs
    /\ oom_pc = "read"
    /\ oom_list = <<>>
    /\ oom_reports = <<>>

\* --pagesize, default 4 (line 262).
PageSizeKb == 4

\* re.search(mem_info_pattern, log_data)
OOM_HasAnchor(log) == \E i \in 1..Len(log) : log[i].kind = "anchor"

\* The text matched by a pattern of config.py occurs in a field with this
\* label: 'active_anon:(\d+)' also occurs in "inactive_anon:N", and
\* 'active_file:(\d+)' in "inactive_file:N".
LabelMatches(key, label) ==
    \/ label = key
    \/ key = "active_anon" /\ label = "inactive_anon"
    \/ key = "active_file" /\ label = "inactive_file"

RECURSIVE OOM_Tokens(_, _, _)
\* The fields of lines from..to of the log, in text order.
OOM_Tokens(log, from, to) ==
    IF from > to THEN <<>>
    ELSE log[from].fields \o OOM_Tokens(log, from + 1, to)

\* A search that takes the last match.
OOM_Search_LastMatch(key, tokens) ==
    LET hits == {i \in 1..Len(tokens) : LabelMatches(key, tokens[i].label)}
    IN  IF hits = {} THEN 0
        ELSE tokens[CHOOSE i \in hits : \A j \in hits : i >= j].value

\* Lines 59-64: re.search(regex, section) takes the first match; 0 if none.
OOM_Search(key, tokens) ==
    LET hits == {i \in 1..Len(tokens) : LabelMatches(key, tokens[i].label)}
    IN  IF hits = {} THEN 0
        ELSE tokens[CHOOSE i \in hits : \A j \in hits : i <= j].value

\* Lines 76-78: re.search of a hugepage field in the text of one node
\* line; NoneInt when there is no match.
OOM_NodeSearch(l, label) ==
    LET hits == {i \in 1..Len(l.fields) : l.fields[i].label = label}
    IN  IF hits = {} THEN NoneInt
        ELSE l.fields[CHOOSE i \in hits : \A j \in hits : i <= j].value

\* A match that does not ask for the "Node N" start of the line.
OOM_NodeMatch_AnyLine(l) ==
    /\ OOM_NodeSearch(l, "hugepages_total") # NoneInt
    /\ OOM_NodeSearch(l, "hugepages_free") # NoneInt
    /\ OOM_NodeSearch(l, "hugepages_size") # NoneInt

\* Lines 69 and 80: the line is found by 'Node \d+ (.*)' and all three
\* fields are found in it.
OOM_NodeMatch(l) ==
    /\ l.kind = "node"
    /\ OOM_NodeSearch(l, "hugepages_total") # NoneInt
    /\ OOM_NodeSearch(l, "hugepages_free") # NoneInt
    /\ OOM_NodeSearch(l, "hugepages_size") # NoneInt

RECURSIVE OOM_Hugepages(_, _, _)
\* Lines 66-92: <<total_kb, used_kb>> summed over the node lines from..to.
OOM_Hugepages(log, from, to) ==
    IF from > to THEN <<0, 0>>
    ELSE LET rest == OOM_Hugepages(log, from + 1, to)
             l == log[from]
             match_total == OOM_NodeSearch(l, "hugepages_total")
             match_free == OOM_NodeSearch(l, "hugepages_free")
             match_size == OOM_NodeSearch(l, "hugepages_size")
         IN  IF OOM_NodeMatch(l)
             THEN LET hugepages_total == match_total
                      hugepages_free == match_free
                      hugepages_size_kb == match_size
                      hugepages_used == hugepages_total - hugepages_free
                  IN  <<rest[1] + hugepages_total * hugepages_size_kb,
                        rest[2] + hugepages_used * hugepages_size_kb>>
             ELSE rest

\* An extraction whose sections all run to the end of the log.
extract_memory_info_ToEndOfLog(log) ==
    LET anchors == {i \in 1..Len(log) : log[i].kind = "anchor"}
        SectionEnd(a) == Len(log)
        Entry(a) ==
            LET tokens == OOM_Tokens(log, a + 1, SectionEnd(a))
                huge == OOM_Hugepages(log, a + 1, SectionEnd(a))
            IN  [anchor |-> a,
                 memory_info |-> [k \in PatternKeys |-> OOM_Search(k, tokens)],
                 total_hugepages_memory_kb |-> huge[1],
                 used_hugepages_memory_kb |-> huge[2]]
        Nth(n) == CHOOSE a \in anchors :
                      Cardinality({b \in anchors : b < a}) = n - 1
    IN  [n \in 1..Cardinality(anchors) |-> Entry(Nth(n))]

\* Lines 36-97: one entry per anchor line; its section is the text up to
\* the next anchor line or the end of the log.
extract_memory_info(log) ==
    LET anchors == {i \in 1..Len(log) : log[i].kind = "anchor"}
        SectionEnd(a) ==
            IF \E b \in anchors : b > a
            THEN (CHOOSE b \in anchors :
                      b > a /\ \A c \in anchors : c > a => b <= c) - 1
            ELSE Len(log)
        Entry(a) ==
            LET tokens == OOM_Tokens(log, a + 1, SectionEnd(a))
                huge == OOM_Hugepages(log, a + 1, SectionEnd(a))
            IN  [anchor |-> a,
                 memory_info |-> [k \in PatternKeys |-> OOM_Search(k, tokens)],
                 total_hugepages_memory_kb |-> huge[1],
                 used_hugepages_memory_kb |-> huge[2]]
        Nth(n) == CHOOSE a \in anchors :
                      Cardinality({b \in anchors : b < a}) = n - 1
    IN  [n \in 1..Cardinality(anchors) |-> Entry(Nth(n))]

\* The quotient a / b of Python, kept exact as a fraction.
TrueDiv(a, b) == [num |-> a, den |-> b]

\* x - y on such quotients.
FracSub(x, y) ==
    [num |-> x.num * y.den - y.num * x.den, den |-> x.den * y.den]

\* Lines 99-204: total_memory_pages and unaccounted_pages.  Hugepage kB are
\* divided by pagesize_kb as floats, so unaccounted is kept exact as
\* unaccounted_scaled = unaccounted_pages * pagesize_kb.
calculate_memory_usage(memory_info, hugepages_total_kb, pagesize_kb) ==
    LET total_memory_pages == memory_info["total_pages_ram"]
        swap_free_pages == TrueDiv(memory_info["free_swap"], pagesize_kb)
        swap_total_pages == TrueDiv(memory_info["total_swap"], pagesize_kb)
        swap_used_pages == FracSub(swap_total_pages, swap_free_pages)
        unaccounted_scaled ==
            pagesize_kb * (total_memory_pages
                           - SumOver(memory_info, SubtractedFields))
            - hugepages_total_kb
    IN  [kind |-> "summary",
         total_memory_pages |-> total_memory_pages,
         unaccounted_scaled |-> unaccounted_scaled,
         swap_total_pages |-> swap_total_pages,
         swap_free_pages |-> swap_free_pages,
         swap_used_pages |-> swap_used_pages]

\* Lines 279-288 with an anchor in the log: every entry is calculated and
\* printed in turn.
OOM_Main ==
    /\ oom_pc = "read"
    /\ OOM_HasAnchor(oom_log)
    /\ oom_list' = extract_memory_info(oom_log)
    /\ oom_reports' =
           [n \in 1..Len(oom_list') |->
               calculate_memory_usage(oom_list'[n].memory_info,
                                      oom_list'[n].total_hugepages_memory_kb,
                                      PageSizeKb)]
    /\ oom_pc' = "done"
    /\ UNCHANGED <<oom_log, po_vars, pi_vars, view_vars, mem_vars, ev_vars, si_vars, mc_vars, rw_vars>>

\* Lines 40-42 and 283: no anchor, "No OOM events found", nothing printed.
OOM_NoEvents ==
    /\ oom_pc = "read"
    /\ ~OOM_HasAnchor(oom_log)
    /\ oom_list' = <<>>
    /\ oom_reports' = <<>>
    /\ oom_pc' = "no_events"
    /\ UNCHANGED <<oom_log, po_vars, pi_vars, view_vars, mem_vars, ev_vars, si_vars, mc_vars, rw_vars>>

NextOOM ==
    \/ OOM_Main
    \/ OOM_NoEvents

\* ------------------------------------------------------------------------
\* chk_mem.py and chk_unaccounted_memory.py
\* ------------------------------------------------------------------------

\* A line of the meminfo file, "Key:   value kB".  value = NoneInt stands
\* for text that int() rejects; parts is len(line.split()).
MemLine(key, value) == [key |-> key, value |-> value, parts |-> 2]
MemLineNonInt(key) == [key |-> key, value |-> NoneInt, parts |-> 2]
MemBlankLine == [key |-> "", value |-> NoneInt, parts |-> 0]

\* The lines a meminfo file is made of; a file holds any of them, in this
\* order.  The small values are distinct powers of two, so that a sum
\* tells which fields went into it.
MemTemplate ==
    <<MemLine("MemTotal", 100000), MemLine("MemFree", 1),
      MemLine("SwapCached", 2), MemLine("Active(anon)", 4),
      MemLine("Inactive(anon)", 8), MemLine("AnonPages", 16),
      MemLine("Unevictable", 32), MemLine("MemAvailable", 64),
      MemLine("HugePages_Total", 3), MemLine("Hugepagesize", 2048),
      MemLine("Hugetlb", 512), MemLineNonInt("Buffers"), MemBlankLine>>

MemFileOf(S) ==
    [n \in 1..Cardinality(S) |->
        MemTemplate[CHOOSE i \in S : Cardinality({j \in S : j < i}) = n - 1]]

MemInputs == {MemFileOf(S) : S \in SUBSET (1..Len(MemTemplate))}

\* What parse_cmdline_hugepages and size_str_to_kb give for proc/cmdline:
\* no file or no hint, "hugepages=4 hugepagesz=2M", or "hugepagesz=2M".
CmdlineNone == [hugepages |-> NoneInt, size_kb |-> NoneInt]
CmdlineBoth == [hugepages |-> 4, size_kb |-> 2048]
CmdlineSizeOnly == [hugepages |-> NoneInt, size_kb |-> 2048]
MemCmdlines == {CmdlineNone, CmdlineBoth, CmdlineSizeOnly}

MemTools == {"chk_mem", "chk_unaccounted_memory"}

\* chk_mem.py lines 10-16.
FIELDS ==
    <<"MemTotal", "MemFree", "Buffers", "Cached", "SwapCached",
      "Active(anon)", "Inactive(anon)", "AnonPages", "Unevictable", "Slab",
      "KernelStack", "PageTables", "Percpu", "HugePages_Total",
      "Hugepagesize", "Hugetlb">>

\* chk_unaccounted_memory.py lines 43-45.
UM_fields ==
    <<"MemTotal", "MemFree", "Buffers", "Cached", "Slab", "KernelStack",
      "PageTables", "Percpu", "AnonPages", "Active(anon)", "Inactive(anon)",
      "HugePages_Total", "Hugepagesize">>

SeqRange(s) == {s[i] : i \in 1..Len(s)}

RECURSIVE SumSeq(_, _)
\* sum(meminfo[field] for field in accounted)
SumSeq(meminfo, accounted) ==
    IF accounted = <<>> THEN 0
    ELSE meminfo[Head(accounted)] + SumSeq(meminfo, Tail(accounted))

\* A thing written to the terminal: an error message, a warning, a
\* traceback, the verbose formula, or a part of the report table.
MemOut(kind, field, value, fields) ==
    [kind |-> kind, field |-> field, value |-> value, fields |-> fields]

MemTableKinds == {"header", "MemTotal", "row", "Unaccounted"}

Mem_Init ==
    /\ mem_tool \in MemTools
    /\ mem_file \in MemInputs
    /\ mem_cmdline \in IF mem_tool = "chk_mem" THEN MemCmdlines
                       ELSE {CmdlineNone}
    /\ mem_verbose \in BOOLEAN
    /\ mem_pc = "parse_meminfo"
    /\ mem_meminfo = EmptyMap
    /\ mem_fields = IF mem_tool = "chk_mem" THEN FIELDS ELSE UM_fields
    /\ mem_show_anonpages = FALSE
    /\ mem_total = NoneInt
    /\ mem_accounted = <<>>
    /\ mem_unaccounted = NoneInt
    /\ mem_out = <<>>
    /\ mem_exit = NoneInt

\* The run goes on to the next statement.
Mem_Goto(pc) ==
    /\ mem_pc' = pc
    /\ UNCHANGED <<mem_tool, mem_file, mem_cmdline, mem_verbose>>
    /\ UNCHANGED <<po_vars, pi_vars, view_vars, oom_vars, ev_vars, si_vars, mc_vars, rw_vars>>

\* sys.exit(1) after a message, or an exception that nothing catches.
Mem_Exit(kind, text) ==
    /\ mem_out' = Append(mem_out, MemOut(kind, text, 0, <<>>))
    /\ mem_exit' = 1
    /\ Mem_Goto("exit")
    /\ UNCHANGED <<mem_meminfo, mem_fields, mem_show_anonpages, mem_total,
                   mem_accounted, mem_unaccounted>>

RECURSIVE CM_ParseFrom(_, _, _)
\* chk_mem.py lines 44-54: the loop over the lines from line i on.
CM_ParseFrom(lines, i, meminfo) ==
    IF i > Len(lines) THEN meminfo
    ELSE LET l == lines[i]
         IN  IF l.parts < 2
             THEN CM_ParseFrom(lines, i + 1, meminfo)
             ELSE IF l.key \in SeqRange(FIELDS) /\ l.value # NoneInt
             THEN CM_ParseFrom(lines, i + 1, Put(meminfo, l.key, l.value))
             ELSE CM_ParseFrom(lines, i + 1, meminfo)

parse_meminfo(lines) == CM_ParseFrom(lines, 1, EmptyMap)

CM_ParseMeminfo ==
    /\ mem_tool = "chk_mem"
    /\ mem_pc = "parse_meminfo"
    /\ mem_meminfo' = parse_meminfo(mem_file)
    /\ Mem_Goto("compute_anonpages")
    /\ UNCHANGED <<mem_fields, mem_show_anonpages, mem_total, mem_accounted,
                   mem_unaccounted, mem_out, mem_exit>>

\* chk_mem.py lines 57-62.
CM_ComputeAnonpages ==
    /\ mem_tool = "chk_mem"
    /\ mem_pc = "compute_anonpages"
    /\ \/ /\ "AnonPages" \in DOMAIN mem_meminfo
          /\ mem_show_anonpages' = TRUE
          /\ UNCHANGED mem_meminfo
       \/ /\ "AnonPages" \notin DOMAIN mem_meminfo
          /\ {"Active(anon)", "Inactive(anon)"} \subseteq DOMAIN mem_meminfo
          /\ mem_meminfo' =
                 Put(mem_meminfo, "AnonPages",
                     mem_meminfo["Active(anon)"]
                         + mem_meminfo["Inactive(anon)"])
          /\ mem_show_anonpages' = FALSE
    /\ Mem_Goto("compute_hugepages")
    /\ UNCHANGED <<mem_fields, mem_total, mem_accounted, mem_unaccounted,
                   mem_out, mem_exit>>

\* chk_mem.py lines 63-64.
CM_ComputeAnonpagesExit ==
    /\ mem_tool = "chk_mem"
    /\ mem_pc = "compute_anonpages"
    /\ "AnonPages" \notin DOMAIN mem_meminfo
    /\ ~({"Active(anon)", "Inactive(anon)"} \subseteq DOMAIN mem_meminfo)
    /\ Mem_Exit("error", "AnonPages is not available")

\* chk_mem.py line 119: the sysfs fallback is reached with a size and
\* without a count; it names 'root', which is defined nowhere.
CM_SysfsFallback ==
    /\ "Hugetlb" \notin DOMAIN mem_meminfo
    /\ mem_cmdline.hugepages = NoneInt
    /\ mem_cmdline.size_kb # NoneInt
    /\ mem_cmdline.size_kb # 0

\* chk_mem.py lines 94-134 without the fallback.
CM_ComputeHugepages ==
    /\ mem_tool = "chk_mem"
    /\ mem_pc = "compute_hugepages"
    /\ ~CM_SysfsFallback
    /\ IF "Hugetlb" \in DOMAIN mem_meminfo
       THEN /\ mem_meminfo' =
                   Put(mem_meminfo, "HugePages", mem_meminfo["Hugetlb"])
            /\ UNCHANGED mem_out
       ELSE IF mem_cmdline.hugepages # NoneInt /\ mem_cmdline.size_kb # NoneInt
       THEN /\ mem_meminfo' =
                   Put(mem_meminfo, "HugePages",
                       mem_cmdline.hugepages * mem_cmdline.size_kb)
            /\ UNCHANGED mem_out
       ELSE /\ mem_meminfo' = Put(mem_meminfo, "HugePages", 0)
            /\ mem_out' =
                   Append(mem_out,
                          MemOut("warning", "HugePages usage could not be determined",
                                 0, <<>>))
    /\ Mem_Goto("calculate_unaccounted")
    /\ UNCHANGED <<mem_fields, mem_show_anonpages, mem_total, mem_accounted,
                   mem_unaccounted, mem_exit>>

\* chk_mem.py line 120: NameError, the run ends with a traceback.
CM_ComputeHugepagesRaises ==
    /\ mem_tool = "chk_mem"
    /\ mem_pc = "compute_hugepages"
    /\ CM_SysfsFallback
    /\ Mem_Exit("traceback", "NameError")

\* An accounted list that keeps the LRU fields next to AnonPages.
CM_Accounted_KeepsLru(meminfo, show_anonpages) ==
    LET Keep(field) ==
            /\ field \notin {"MemTotal", "Unevictable", "Hugetlb"}
            /\ ~(field = "AnonPages" /\ ~show_anonpages)
            /\ field \notin {"HugePages_Total", "Hugepagesize"}
            /\ field \in DOMAIN meminfo
        listed == SelectSeq(FIELDS, Keep)
    IN  IF "HugePages" \in DOMAIN meminfo
        THEN Append(listed, "HugePages")
        ELSE listed

\* chk_mem.py lines 142-155: the accounted list.
CM_Accounted(meminfo, show_anonpages) ==
    LET Keep(field) ==
            /\ field \notin {"MemTotal", "Unevictable", "Hugetlb"}
            /\ ~(field = "AnonPages" /\ ~show_anonpages)
            /\ ~(field \in {"Active(anon)", "Inactive(anon)"}
                     /\ show_anonpages)
            /\ field \notin {"HugePages_Total", "Hugepagesize"}
            /\ field \in DOMAIN meminfo
        listed == SelectSeq(FIELDS, Keep)
    IN  IF "HugePages" \in DOMAIN meminfo
        THEN Append(listed, "HugePages")
        ELSE listed

\* chk_mem.py lines 136-158: <<total, accounted_sum, unaccounted, accounted>>.
calculate_unaccounted(meminfo, show_anonpages) ==
    LET total == meminfo["MemTotal"]
        accounted == CM_Accounted(meminfo, show_anonpages)
        accounted_sum == SumSeq(meminfo, accounted)
    IN  <<total, accounted_sum, total - accounted_sum, accounted>>

CM_CalculateUnaccounted ==
    /\ mem_tool = "chk_mem"
    /\ mem_pc = "calculate_unaccounted"
    /\ "MemTotal" \in DOMAIN mem_meminfo
    /\ LET r == calculate_unaccounted(mem_meminfo, mem_show_anonpages)
       IN  /\ mem_total' = r[1]
           /\ mem_unaccounted' = r[3]
           /\ mem_accounted' = r[4]
    /\ Mem_Goto("print_report")
    /\ UNCHANGED <<mem_meminfo, mem_fields, mem_show_anonpages, mem_out,
                   mem_exit>>

\* A missing MemTotal that is read as 0 and reported on.
CM_CalculateUnaccountedExit_TotalZero ==
    /\ mem_tool = "chk_mem"
    /\ mem_pc = "calculate_unaccounted"
    /\ "MemTotal" \notin DOMAIN mem_meminfo
    /\ mem_total' = 0
    /\ mem_accounted' = CM_Accounted(mem_meminfo, mem_show_anonpages)
    /\ mem_unaccounted' = 0 - SumSeq(mem_meminfo, mem_accounted')
    /\ Mem_Goto("print_report")
    /\ UNCHANGED <<mem_meminfo, mem_fields, mem_show_anonpages, mem_out,
                   mem_exit>>

\* chk_mem.py lines 137-140.
CM_CalculateUnaccountedExit ==
    /\ mem_tool = "chk_mem"
    /\ mem_pc = "calculate_unaccounted"
    /\ "MemTotal" \notin DOMAIN mem_meminfo
    /\ Mem_Exit("error", "MemTotal not found")

\* The rows of a report table, one per field of the list.
MemRows(meminfo, listed) ==
    [n \in 1..Len(listed) |-> MemOut("row", listed[n], meminfo[listed[n]], <<>>)]

\* chk_mem.py lines 160-181.
print_report(meminfo, total, accounted_fields, unaccounted, verbose) ==
    (IF verbose
     THEN <<MemOut("formula", "MemTotal", unaccounted, accounted_fields)>>
     ELSE <<>>)
    \o <<MemOut("header", "", 0, <<>>), MemOut("MemTotal", "MemTotal", total, <<>>)>>
    \o MemRows(meminfo, accounted_fields)
    \o <<MemOut("Unaccounted", "", unaccounted, <<>>)>>

CM_PrintReport ==
    /\ mem_tool = "chk_mem"
    /\ mem_pc = "print_report"
    /\ mem_out' = mem_out \o print_report(mem_meminfo, mem_total,
                                          mem_accounted, mem_unaccounted,
                                          mem_verbose)
    /\ mem_exit' = 0
    /\ Mem_Goto("done")
    /\ UNCHANGED <<mem_meminfo, mem_fields, mem_show_anonpages, mem_total,
                   mem_accounted, mem_unaccounted>>

\* chk_unaccounted_memory.py lines 50-55: parts[0] fails on a line without
\* a word and int(parts[1]) on a value that is no integer.
UM_ParseFails(lines) ==
    \E i \in 1..Len(lines) :
        \/ lines[i].parts = 0
        \/ lines[i].key \in SeqRange(UM_fields) /\ lines[i].value = NoneInt

RECURSIVE UM_ParseFrom(_, _, _)
UM_ParseFrom(lines, i, meminfo) ==
    IF i > Len(lines) THEN meminfo
    ELSE LET l == lines[i]
         IN  IF l.key \in SeqRange(UM_fields)
             THEN UM_ParseFrom(lines, i + 1, Put(meminfo, l.key, l.value))
             ELSE UM_ParseFrom(lines, i + 1, meminfo)

UM_Parse ==
    /\ mem_tool = "chk_unaccounted_memory"
    /\ mem_pc = "parse_meminfo"
    /\ ~UM_ParseFails(mem_file)
    /\ mem_meminfo' = UM_ParseFrom(mem_file, 1, EmptyMap)
    /\ Mem_Goto("hugepages")
    /\ UNCHANGED <<mem_fields, mem_show_anonpages, mem_total, mem_accounted,
                   mem_unaccounted, mem_out, mem_exit>>

UM_ParseRaises ==
    /\ mem_tool = "chk_unaccounted_memory"
    /\ mem_pc = "parse_meminfo"
    /\ UM_ParseFails(mem_file)
    /\ LET bad == {i \in 1..Len(mem_file) :
                      \/ mem_file[i].parts = 0
                      \/ /\ mem_file[i].key \in SeqRange(UM_fields)
                         /\ mem_file[i].value = NoneInt}
           first == CHOOSE i \in bad : \A j \in bad : i <= j
       IN  Mem_Exit("traceback",
                    IF mem_file[first].parts = 0 THEN "IndexError"
                    ELSE "ValueError")

\* chk_unaccounted_memory.py lines 58-60.
UM_HugePages ==
    /\ mem_tool = "chk_unaccounted_memory"
    /\ mem_pc = "hugepages"
    /\ {"HugePages_Total", "Hugepagesize"} \subseteq DOMAIN mem_meminfo
    /\ mem_meminfo' =
           Put(mem_meminfo, "HugePages",
               mem_meminfo["HugePages_Total"] * mem_meminfo["Hugepagesize"])
    /\ mem_fields' = Append(mem_fields, "HugePages")
    /\ Mem_Goto("anonpages")
    /\ UNCHANGED <<mem_show_anonpages, mem_total, mem_accounted,
                   mem_unaccounted, mem_out, mem_exit>>

\* chk_unaccounted_memory.py lines 61-63.
UM_HugePagesExit ==
    /\ mem_tool = "chk_unaccounted_memory"
    /\ mem_pc = "hugepages"
    /\ ~({"HugePages_Total", "Hugepagesize"} \subseteq DOMAIN mem_meminfo)
    /\ Mem_Exit("error", "Required HugePages_Total or Hugepagesize not found")

\* chk_unaccounted_memory.py lines 66-70 and 74-76.
UM_AnonPages ==
    /\ mem_tool = "chk_unaccounted_memory"
    /\ mem_pc = "anonpages"
    /\ \/ /\ "AnonPages" \in DOMAIN mem_meminfo
          /\ mem_show_anonpages' = TRUE
          /\ UNCHANGED mem_meminfo
       \/ /\ "AnonPages" \notin DOMAIN mem_meminfo
          /\ {"Active(anon)", "Inactive(anon)"} \subseteq DOMAIN mem_meminfo
          /\ mem_meminfo' =
                 Put(mem_meminfo, "AnonPages",
                     mem_meminfo["Active(anon)"]
                         + mem_meminfo["Inactive(anon)"])
          /\ mem_show_anonpages' = FALSE
    /\ Mem_Goto("memtotal")
    /\ UNCHANGED <<mem_fields, mem_total, mem_accounted, mem_unaccounted,
                   mem_out, mem_exit>>

\* chk_unaccounted_memory.py lines 71-73.
UM_AnonPagesExit ==
    /\ mem_tool = "chk_unaccounted_memory"
    /\ mem_pc = "anonpages"
    /\ "AnonPages" \notin DOMAIN mem_meminfo
    /\ ~({"Active(anon)", "Inactive(anon)"} \subseteq DOMAIN mem_meminfo)
    /\ Mem_Exit("error", "AnonPages is not available")

\* chk_unaccounted_memory.py lines 79-81.
UM_MemTotalExit ==
    /\ mem_tool = "chk_unaccounted_memory"
    /\ mem_pc = "memtotal"
    /\ "MemTotal" \notin DOMAIN mem_meminfo
    /\ Mem_Exit("error", "MemTotal not found")

\* chk_unaccounted_memory.py lines 88-92: list.remove raises ValueError
\* for a field that is not in the list.
UM_RemoveFails(meminfo, show_anonpages) ==
    /\ show_anonpages
    /\ ~({"Active(anon)", "Inactive(anon)"} \subseteq DOMAIN meminfo)

\* chk_unaccounted_memory.py lines 85-98: accounted_memory_fields.
UM_Accounted(fields, meminfo, show_anonpages) ==
    LET Present(field) == field \in DOMAIN meminfo /\ field # "MemTotal"
        Anon(field) ==
            IF show_anonpages
            THEN field \notin {"Active(anon)", "Inactive(anon)"}
            ELSE field # "AnonPages"
        Huge(field) == field \notin {"HugePages_Total", "Hugepagesize"}
    IN  SelectSeq(SelectSeq(SelectSeq(fields, Present), Anon), Huge)

\* chk_unaccounted_memory.py lines 84-101.
UM_Calculate ==
    /\ mem_tool = "chk_unaccounted_memory"
    /\ mem_pc = "memtotal"
    /\ "MemTotal" \in DOMAIN mem_meminfo
    /\ ~UM_RemoveFails(mem_meminfo, mem_show_anonpages)
    /\ mem_total' = mem_meminfo["MemTotal"]
    /\ mem_accounted' = UM_Accounted(mem_fields, mem_meminfo,
                                     mem_show_anonpages)
    /\ mem_unaccounted' = mem_meminfo["MemTotal"]
                              - SumSeq(mem_meminfo, mem_accounted')
    /\ Mem_Goto("print")
    /\ UNCHANGED <<mem_meminfo, mem_fields, mem_show_anonpages, mem_out,
                   mem_exit>>

UM_CalculateRaises ==
    /\ mem_tool = "chk_unaccounted_memory"
    /\ mem_pc = "memtotal"
    /\ "MemTotal" \in DOMAIN mem_meminfo
    /\ UM_RemoveFails(mem_meminfo, mem_show_anonpages)
    /\ Mem_Exit("traceback", "ValueError")

\* chk_unaccounted_memory.py lines 104-122: the rows follow the order of
\* 'fields'.
UM_Print ==
    /\ mem_tool = "chk_unaccounted_memory"
    /\ mem_pc = "print"
    /\ mem_out' =
           mem_out
           \o (IF mem_verbose
               THEN <<MemOut("formula", "MemTotal", mem_unaccounted,
                             mem_accounted)>>
               ELSE <<>>)
           \o <<MemOut("header", "", 0, <<>>),
                MemOut("MemTotal", "MemTotal", mem_total, <<>>)>>
           \o MemRows(mem_meminfo,
                      SelectSeq(mem_fields,
                                LAMBDA key : key \in SeqRange(mem_accounted)))
           \o <<MemOut("Unaccounted", "", mem_unaccounted, <<>>)>>
    /\ mem_exit' = 0
    /\ Mem_Goto("done")
    /\ UNCHANGED <<mem_meminfo, mem_fields, mem_show_anonpages, mem_total,
                   mem_accounted, mem_unaccounted>>

NextMem ==
    \/ CM_ParseMeminfo
    \/ CM_ComputeAnonpages
    \/ CM_ComputeAnonpagesExit
    \/ CM_ComputeHugepages
    \/ CM_ComputeHugepagesRaises
    \/ CM_CalculateUnaccounted
    \/ CM_CalculateUnaccountedExit
    \/ CM_PrintReport
    \/ UM_Parse
    \/ UM_ParseRaises
    \/ UM_HugePages
    \/ UM_HugePagesExit
    \/ UM_AnonPages
    \/ UM_AnonPagesExit
    \/ UM_MemTotalExit
    \/ UM_Calculate
    \/ UM_CalculateRaises
    \/ UM_Print

\* ------------------------------------------------------------------------
\* chk_oom_ps.py and oom_parser.py: parse_oom_log
\* ------------------------------------------------------------------------

\* A line of the log: its text without the surrounding white space, whether
\* it is indented, and which of the marker texts it contains.
EvLine(text, indented, invoked, kill) ==
    [text |-> text, indented |-> indented, invoked |-> invoked, kill |-> kill]

EvInvokedA == EvLine("A invoked oom-killer", FALSE, TRUE, FALSE)
EvInvokedAIndented == EvLine("A invoked oom-killer", TRUE, TRUE, FALSE)
EvInvokedB == EvLine("B invoked oom-killer", FALSE, TRUE, FALSE)
EvKilled == EvLine("Out of memory: Killed process 1", FALSE, FALSE, TRUE)
EvKill == EvLine("Out of memory: Kill process 2", FALSE, FALSE, TRUE)
EvTable == EvLine("[ 1] 0 1 10 5 0 0 0 init", FALSE, FALSE, FALSE)
EvOther == EvLine("Mem-Info:", FALSE, FALSE, FALSE)

LinesEV ==
    {EvInvokedA, EvInvokedAIndented, EvInvokedB, EvKilled, EvKill, EvTable,
     EvOther}

\* line.strip()
EV_Strip(l) == l.text

EV_Init ==
    /\ ev_lines = <<>>
    /\ ev_events = EmptyMap
    /\ ev_current = NoneStr

\* 'for line in file' hands out the next line.
EV_Read(l) ==
    /\ Len(ev_lines) < MaxLines
    /\ ev_lines' = Append(ev_lines, l)
    /\ UNCHANGED <<po_vars, pi_vars, view_vars, oom_vars, mem_vars, si_vars, mc_vars, rw_vars>>

\* oom_events[current_event].append(line.strip())
EV_Append(events, key, l) ==
    Put(events, key, Append(Get(events, key, <<>>), EV_Strip(l)))

\* Lines 46-53 for a line with "invoked oom-killer".
EV_Start ==
    \E l \in LinesEV :
        /\ EV_Read(l)
        /\ l.invoked
        /\ ev_events' = EV_Append(ev_events, EV_Strip(l), l)
        /\ ev_current' = IF l.kill THEN NoneStr ELSE EV_Strip(l)

\* Lines 49-50 for a line inside an event that does not end it.
EV_Collect ==
    \E l \in LinesEV :
        /\ EV_Read(l)
        /\ ~l.invoked
        /\ ev_current # NoneStr
        /\ ~l.kill
        /\ ev_events' = EV_Append(ev_events, ev_current, l)
        /\ UNCHANGED ev_current

\* The kill line that leaves the event open.
EV_Kill_KeepsOpen ==
    \E l \in LinesEV :
        /\ EV_Read(l)
        /\ ~l.invoked
        /\ ev_current # NoneStr
        /\ l.kill
        /\ ev_events' = EV_Append(ev_events, ev_current, l)
        /\ UNCHANGED ev_current

\* Lines 49-53 for "Out of memory: Kill(ed) process" inside an event.
EV_Kill ==
    \E l \in LinesEV :
        /\ EV_Read(l)
        /\ ~l.invoked
        /\ ev_current # NoneStr
        /\ l.kill
        /\ ev_events' = EV_Append(ev_events, ev_current, l)
        /\ ev_current' = NoneStr

\* Line 49 with no event open: the line is dropped.
EV_Outside ==
    \E l \in LinesEV :
        /\ EV_Read(l)
        /\ ~l.invoked
        /\ ev_current = NoneStr
        /\ UNCHANGED <<ev_events, ev_current>>

NextEV ==
    \/ EV_Start
    \/ EV_Collect
    \/ EV_Kill
    \/ EV_Outside

\* ------------------------------------------------------------------------
\* page_owner_slab_info.py: parse_page_owner
\* ------------------------------------------------------------------------

\* current_allocation = None, and the dictionary of Nones that line 49
\* builds for every header.
SI_NoAllocation == [has |-> FALSE, order |-> NoneInt, process |-> NoneStr]
SI_Unparsed == [has |-> TRUE, order |-> NoneInt, process |-> NoneStr]

SI_Init ==
    /\ si_lines = <<>>
    /\ si_slab_usage = EmptyMap
    /\ si_non_slab_usage = EmptyMap
    /\ si_current = SI_NoAllocation
    /\ si_is_slab = FALSE
    /\ si_in_stack_trace = FALSE
    /\ si_error = "none"

\* Lines 59-63: the same pattern as in page_owner_info.py.
SI_Match(l) == l.order # NoneInt /\ l.mask = "hex"

\* Lines 13-22.
SI_SLAB_FUNCTIONS ==
    {"kmem_cache_alloc", "kmem_cache_alloc_node", "allocate_slab",
     "___slab_alloc", "kmem_cache_alloc_lru", "slab_alloc", "__slab_alloc",
     "__kmalloc"}

\* Line 83: any(func in line for func in SLAB_FUNCTIONS).  Of the texts a
\* line is made of, only a function name holds one of the names.
SI_SlabLine(l) == l.func \in SI_SLAB_FUNCTIONS

\* Line 87: not line or re.match(r"PFN \d+", line)
SI_EndsTrace(l) == l.kind \in {"blank", "pfn"}

\* 'for line in lines', while no exception was raised.
SI_Read(l) ==
    /\ si_error = "none"
    /\ Len(si_lines) < MaxLines
    /\ si_lines' = Append(si_lines, l)
    /\ UNCHANGED <<po_vars, pi_vars, view_vars, oom_vars, mem_vars, ev_vars,
                   mc_vars, rw_vars>>

\* Lines 47-80: a header that matches.
SI_Header ==
    \E l \in LinesPI :
        /\ SI_Read(l)
        /\ StartsWithPageAllocated(l)
        /\ SI_Match(l)
        /\ si_current' = [has |-> TRUE, order |-> l.order,
                          process |-> IF l.pid # NoneInt THEN l.proc
                                      ELSE NoneStr]
        /\ si_in_stack_trace' = TRUE
        /\ si_is_slab' = FALSE
        /\ UNCHANGED <<si_slab_usage, si_non_slab_usage, si_error>>

\* Lines 47-67: a header that does not match leaves the dictionary of
\* Nones and the flags as they are.
SI_HeaderNoMatch ==
    \E l \in LinesPI :
        /\ SI_Read(l)
        /\ StartsWithPageAllocated(l)
        /\ ~SI_Match(l)
        /\ si_current' = SI_Unparsed
        /\ UNCHANGED <<si_slab_usage, si_non_slab_usage, si_is_slab,
                       si_in_stack_trace, si_error>>

\* Lines 82-85: a line inside the stack trace that does not end it.
SI_TraceLine ==
    \E l \in LinesPI :
        /\ SI_Read(l)
        /\ ~StartsWithPageAllocated(l)
        /\ si_in_stack_trace
        /\ ~SI_EndsTrace(l)
        /\ si_is_slab' = (si_is_slab \/ SI_SlabLine(l))
        /\ UNCHANGED <<si_slab_usage, si_non_slab_usage, si_current,
                       si_in_stack_trace, si_error>>

\* Lines 82-114: an empty line or a "PFN N" line inside the stack trace
\* ends it and counts the allocation.
SI_EndOfTrace ==
    \E l \in LinesPI :
        /\ SI_Read(l)
        /\ ~StartsWithPageAllocated(l)
        /\ si_in_stack_trace
        /\ SI_EndsTrace(l)
        /\ si_current.order # NoneInt
        /\ si_in_stack_trace' = FALSE
        /\ LET order == si_current.order
           IN  IF si_is_slab
               THEN /\ si_slab_usage' =
                           Put(si_slab_usage, order,
                               Get(si_slab_usage, order, 0) + Pow2(order))
                    /\ UNCHANGED si_non_slab_usage
               ELSE /\ si_non_slab_usage' =
                           Put(si_non_slab_usage, order,
                               Get(si_non_slab_usage, order, 0) + Pow2(order))
                    /\ UNCHANGED si_slab_usage
        /\ UNCHANGED <<si_current, si_is_slab, si_error>>

\* Lines 92-107 after a header that did not match: 1 << None.
SI_EndOfTraceRaises ==
    \E l \in LinesPI :
        /\ SI_Read(l)
        /\ ~StartsWithPageAllocated(l)
        /\ si_in_stack_trace
        /\ SI_EndsTrace(l)
        /\ si_current.order = NoneInt
        /\ si_in_stack_trace' = FALSE
        /\ si_error' = "TypeError"
        /\ UNCHANGED <<si_slab_usage, si_non_slab_usage, si_current,
                       si_is_slab>>

\* Line 82 outside a stack trace: the line is passed over.
SI_IgnoredLine ==
    \E l \in LinesPI :
        /\ SI_Read(l)
        /\ ~StartsWithPageAllocated(l)
        /\ ~si_in_stack_trace
        /\ UNCHANGED <<si_slab_usage, si_non_slab_usage, si_current,
                       si_is_slab, si_in_stack_trace, si_error>>

NextSI ==
    \/ SI_Header
    \/ SI_HeaderNoMatch
    \/ SI_TraceLine
    \/ SI_EndOfTrace
    \/ SI_EndOfTraceRaises
    \/ SI_IgnoredLine

\* ------------------------------------------------------------------------
\* page_owner_most_common.py: extract_call_traces and
\* get_most_common_call_traces
\* ------------------------------------------------------------------------

\* The header of the scenario written by another task at a later time.
HdrLater == AllocLine(3, "other", 200, "myapp", 99999)

LinesMC == {HdrScenario, HdrLater, HdrBash, PfnLine, TrSlabMod, TrPlain,
            BlankLine}

\* Line 56: top_n of get_most_common_call_traces.
MC_TopN == 3

MC_Init ==
    /\ mc_lines = <<>>
    /\ mc_call_traces = <<>>
    /\ mc_current_trace = <<>>
    /\ mc_in_trace = FALSE
    /\ mc_order = 0
    /\ mc_pc = "read"
    /\ mc_most_common = <<>>

\* line.startswith("Page allocated via order")
MC_StartsWithHeader(l) == l.kind = "alloc" /\ l.order # NoneInt

\* line.strip(): the lines are held without their surrounding blanks.
MC_Strip(l) == l

\* Lines 29-31, 39-41, 43-44: a non-empty current_trace is appended with
\* the order of its header.
MC_Flush(call_traces, current_trace, order) ==
    IF current_trace # <<>>
    THEN Append(call_traces, [trace |-> current_trace, order |-> order])
    ELSE call_traces

\* 'for line in file'.
MC_Read(l) ==
    /\ mc_pc = "read"
    /\ Len(mc_lines) < MaxLines
    /\ mc_lines' = Append(mc_lines, l)
    /\ UNCHANGED <<mc_pc, mc_most_common>>
    /\ UNCHANGED <<po_vars, pi_vars, view_vars, oom_vars, mem_vars, ev_vars,
                   si_vars, rw_vars>>

\* Lines 28-34: a header closes the trace before it and opens its own,
\* of which it is the first line.
MC_Header ==
    \E l \in LinesMC :
        /\ MC_Read(l)
        /\ MC_StartsWithHeader(l)
        /\ mc_call_traces' =
               MC_Flush(mc_call_traces, mc_current_trace, mc_order)
        /\ mc_current_trace' = <<MC_Strip(l)>>
        /\ mc_in_trace' = TRUE
        /\ mc_order' = l.order

\* Lines 35-36: a non-empty line inside a trace that is not a PFN line.
MC_TraceLine ==
    \E l \in LinesMC :
        /\ MC_Read(l)
        /\ ~MC_StartsWithHeader(l)
        /\ mc_in_trace /\ l.kind # "blank" /\ l.kind # "pfn"
        /\ mc_current_trace' = Append(mc_current_trace, MC_Strip(l))
        /\ UNCHANGED <<mc_call_traces, mc_in_trace, mc_order>>

\* Lines 37-41: an empty line inside a trace closes it.
MC_EndOfTrace ==
    \E l \in LinesMC :
        /\ MC_Read(l)
        /\ ~MC_StartsWithHeader(l)
        /\ mc_in_trace /\ l.kind = "blank"
        /\ mc_in_trace' = FALSE
        /\ mc_call_traces' =
               MC_Flush(mc_call_traces, mc_current_trace, mc_order)
        /\ mc_current_trace' = <<>>
        /\ UNCHANGED mc_order

\* Lines 35-37: a PFN line, and any line outside a trace, takes no branch.
MC_IgnoredLine ==
    \E l \in LinesMC :
        /\ MC_Read(l)
        /\ ~MC_StartsWithHeader(l)
        /\ ~mc_in_trace \/ l.kind = "pfn"
        /\ UNCHANGED <<mc_call_traces, mc_current_trace, mc_in_trace,
                       mc_order>>

\* Lines 49-53: trace_counts, keyed by the tuple of the lines of a trace.
MC_TraceCounts(call_traces) ==
    LET idx == DOMAIN call_traces
    IN  [k \in {call_traces[i].trace : i \in idx} |->
            LET same == {i \in idx : call_traces[i].trace = k}
            IN  [count |-> Cardinality(same),
                 pages |-> SumOver([i \in same |->
                                       Pow2(call_traces[i].order)], same)]]

\* The keys of trace_counts in the order of their insertion.
MC_KeyOrder(call_traces) ==
    LET idx == DOMAIN call_traces
        first == {i \in idx :
                     \A j \in idx : j < i =>
                         call_traces[j].trace # call_traces[i].trace}
    IN  [r \in 1..Cardinality(first) |->
            call_traces[CHOOSE i \in first :
                            Cardinality({j \in first : j < i}) = r - 1].trace]

\* Lines 55-56: the items sorted by count, largest first, ties in the
\* order of insertion, cut to top_n.
get_most_common_call_traces(call_traces, top_n) ==
    LET counts == MC_TraceCounts(call_traces)
        order == MC_KeyOrder(call_traces)
        idx == 1..Len(order)
        Rank(i) == Cardinality({j \in idx :
                       \/ counts[order[j]].count > counts[order[i]].count
                       \/ /\ counts[order[j]].count = counts[order[i]].count
                          /\ j < i}) + 1
        shown == IF Len(order) < top_n THEN Len(order) ELSE top_n
    IN  [r \in 1..shown |->
            LET k == order[CHOOSE i \in idx : Rank(i) = r]
            IN  [trace |-> k, count |-> counts[k].count,
                 pages |-> counts[k].pages]]

\* Lines 43-46 and 59-62: at the end of the file the open trace is
\* appended and the most common traces are taken.
MC_EndOfInput ==
    /\ mc_pc = "read"
    /\ mc_pc' = "done"
    /\ mc_call_traces' = MC_Flush(mc_call_traces, mc_current_trace, mc_order)
    /\ mc_most_common' =
           get_most_common_call_traces(mc_call_traces', MC_TopN)
    /\ UNCHANGED <<mc_lines, mc_current_trace, mc_in_trace, mc_order>>
    /\ UNCHANGED <<po_vars, pi_vars, view_vars, oom_vars, mem_vars, ev_vars,
                   si_vars, rw_vars>>

NextMC ==
    \/ MC_Header
    \/ MC_TraceLine
    \/ MC_EndOfTrace
    \/ MC_IgnoredLine
    \/ MC_EndOfInput

\* ------------------------------------------------------------------------
\* rw_semaphore_analyzer.py: analyze_rw_semaphore and check_integrity
\* ------------------------------------------------------------------------

\* A 64-bit count is held in three parts, count = top * 2^63
\* + readers * 2^8 + low8: bits 0-7, bits 8-62 and bit 63.  AllReaders
\* stands for bits 8-62 all set (2^55 - 1).
AllReaders == -1
RW_Count(top, readers, low8) ==
    [top |-> top, readers |-> readers, low8 |-> low8]

\* An owner word: the task_struct address (bits 2 and up) and the two
\* flag bits.
RW_Owner(task, nonspinnable, reader_owned) ==
    [task |-> task, nonspinnable |-> nonspinnable,
     reader_owned |-> reader_owned]

\* The counts and owners given on the command line.
RW_Counts ==
    {RW_Count(top, readers, low8) :
        top \in 0..1, readers \in {0, 1, 2, AllReaders},
        low8 \in (0..15) \cup {255}}
RW_Owners ==
    {RW_Owner(task, n, r) : task \in {0, 4096}, n \in 0..1, r \in 0..1}

RW_Init ==
    /\ rw_count \in RW_Counts
    /\ rw_owner \in RW_Owners
    /\ rw_pc = "start"
    /\ rw_decoded = <<>>
    /\ rw_issues = <<>>

RW_Idle ==
    /\ rw_count = RW_Count(0, 0, 0)
    /\ rw_owner = RW_Owner(0, 0, 0)
    /\ rw_pc = "idle"
    /\ rw_decoded = <<>>
    /\ rw_issues = <<>>

\* Line 117: signed_count = count if count < (1 << 63) else count - (1 << 64),
\* compared with 0 and with -1.
RW_SignedPositive(c) == c.top = 0 /\ (c.readers # 0 \/ c.low8 # 0)
RW_SignedNegative(c) == c.top = 1
RW_SignedZero(c) == c.top = 0 /\ c.readers = 0 /\ c.low8 = 0
RW_SignedBelowMinusOne(c) ==
    c.top = 1 /\ ~(c.readers = AllReaders /\ c.low8 = 255)

\* Lines 44-45: count & 0b11111000.
RW_ReservedBits(c) == (c.low8 \div 8) % 32

\* Lines 6-49: the issues in the order they are appended.
check_integrity(count, reader_owned, writer_task_struct) ==
    (IF RW_SignedPositive(count)
     THEN (IF reader_owned = 0 THEN <<"Inconsistent State">> ELSE <<>>)
          \o (IF writer_task_struct # 0 /\ reader_owned = 0
              THEN <<"Suspicious Owner">> ELSE <<>>)
     ELSE IF RW_SignedNegative(count)
     THEN (IF writer_task_struct = 0
           THEN <<"Unexpected Missing Owner">> ELSE <<>>)
          \o (IF reader_owned # 0 THEN <<"Conflicting Owner">> ELSE <<>>)
          \o (IF RW_SignedBelowMinusOne(count)
              THEN <<"INVALID STATE">> ELSE <<>>)
     ELSE IF RW_SignedZero(count)
     THEN (IF writer_task_struct # 0
           THEN <<"Owner Field Not Cleared">> ELSE <<>>)
     ELSE <<>>)
    \o (IF RW_ReservedBits(count) # 0
        THEN <<"Unexpected Reserved Bits Set">> ELSE <<>>)

\* Lines 119-127: the fields that analyze_rw_semaphore decodes.
RW_Decode(count, owner) ==
    [writer_locked |-> count.low8 % 2,
     waiters_present |-> (count.low8 \div 2) % 2,
     lock_handoff |-> (count.low8 \div 4) % 2,
     read_fail_bit |-> count.top,
     reader_count |-> IF RW_SignedNegative(count) THEN 0 ELSE count.readers,
     reader_owned |-> owner.reader_owned,
     writer_task_struct |-> owner.task]

\* Lines 96-138: the count and the owner are decoded and checked.
RW_Analyze ==
    /\ rw_pc = "start"
    /\ rw_decoded' = RW_Decode(rw_count, rw_owner)
    /\ rw_issues' = check_integrity(rw_count, rw_decoded'.reader_owned,
                                    rw_decoded'.writer_task_struct)
    /\ rw_pc' = "done"
    /\ UNCHANGED <<rw_count, rw_owner>>
    /\ UNCHANGED <<po_vars, pi_vars, view_vars, oom_vars, mem_vars, ev_vars,
                   si_vars, mc_vars>>

NextRW == RW_Analyze

\* ------------------------------------------------------------------------
\* Specifications
\* ------------------------------------------------------------------------

\* The tools are separate programs; each specification runs one of them
\* and leaves the others in their initial state.
View_Idle ==
    /\ view_entries = <<>>
    /\ view_report = [kind |-> "none", module |-> "", total_allocs |-> 0,
                      total_pages |-> 0]

OOM_Idle ==
    /\ oom_log = <<>>
    /\ oom_pc = "idle"
    /\ oom_list = <<>>
    /\ oom_reports = <<>>

Mem_Idle ==
    /\ mem_tool = "chk_mem"
    /\ mem_file = <<>>
    /\ mem_cmdline = CmdlineNone
    /\ mem_verbose = FALSE
    /\ mem_pc = "idle"
    /\ mem_meminfo = EmptyMap
    /\ mem_fields = FIELDS
    /\ mem_show_anonpages = FALSE
    /\ mem_total = NoneInt
    /\ mem_accounted = <<>>
    /\ mem_unaccounted = NoneInt
    /\ mem_out = <<>>
    /\ mem_exit = NoneInt

InitPO == PO_Init /\ PI_Init /\ View_Idle /\ OOM_Idle /\ Mem_Idle /\ EV_Init
    /\ SI_Init /\ MC_Init /\ RW_Idle
SpecPO == InitPO /\ [][NextPO]_vars

InitPI == PO_Init /\ PI_Init /\ View_Idle /\ OOM_Idle /\ Mem_Idle /\ EV_Init
    /\ SI_Init /\ MC_Init /\ RW_Idle
SpecPI == InitPI /\ [][NextPI]_vars

InitView == PO_Init /\ PI_Init /\ View_Init /\ OOM_Idle /\ Mem_Idle /\ EV_Init
    /\ SI_Init /\ MC_Init /\ RW_Idle
SpecView == InitView /\ [][NextView]_vars

InitOOM == PO_Init /\ PI_Init /\ View_Idle /\ OOM_Init /\ Mem_Idle /\ EV_Init
    /\ SI_Init /\ MC_Init /\ RW_Idle
SpecOOM == InitOOM /\ [][NextOOM]_vars

InitMem == PO_Init /\ PI_Init /\ View_Idle /\ OOM_Idle /\ Mem_Init /\ EV_Init
    /\ SI_Init /\ MC_Init /\ RW_Idle
SpecMem == InitMem /\ [][NextMem]_vars

InitEV ==
    /\ PO_Init /\ PI_Init /\ View_Idle /\ OOM_Idle /\ Mem_Idle /\ EV_Init
    /\ SI_Init /\ MC_Init /\ RW_Idle
SpecEV == InitEV /\ [][NextEV]_vars

InitSI ==
    /\ PO_Init /\ PI_Init /\ View_Idle /\ OOM_Idle /\ Mem_Idle /\ EV_Init
    /\ SI_Init /\ MC_Init /\ RW_Idle
SpecSI == InitSI /\ [][NextSI]_vars

InitMC ==
    /\ PO_Init /\ PI_Init /\ View_Idle /\ OOM_Idle /\ Mem_Idle /\ EV_Init
    /\ SI_Init /\ MC_Init /\ RW_Idle
SpecMC == InitMC /\ [][NextMC]_vars

InitRW ==
    /\ PO_Init /\ PI_Init /\ View_Idle /\ OOM_Idle /\ Mem_Idle /\ EV_Init
    /\ SI_Init /\ MC_Init /\ RW_Init
SpecRW == InitRW /\ [][NextRW]_vars

\* Either of the two parsers of page_owner dumps runs.
NextPages ==
    \/ pi_lines = <<>> /\ NextPO
    \/ po_lines = <<>> /\ NextPI
SpecPages == InitPO /\ [][NextPages]_vars

\* Either of the two calculators of unaccounted memory runs.
InitAccounting ==
    /\ PO_Init /\ PI_Init /\ View_Idle
    /\ \/ OOM_Init /\ Mem_Idle
       \/ OOM_Idle /\ Mem_Init
    /\ EV_Init /\ SI_Init /\ MC_Init /\ RW_Idle
SpecAccounting == InitAccounting /\ [][NextOOM \/ NextMem]_vars

\* ------------------------------------------------------------------------
\* Properties
\* ------------------------------------------------------------------------

\* Sum of d[k].pages over all keys of an aggregate map.
SumPages(d) == SumOver([k \in DOMAIN d |-> d[k].pages], DOMAIN d)

\* Sum of 2^order over the header lines of a file that chk_po counts in
\* total_allocs.
PO_HeaderPages(lines) ==
    LET hdr == {i \in 1..Len(lines) :
                   StartsWithPageAllocated(lines[i]) /\ PO_MatchType1(lines[i])}
    IN  SumOver([i \in hdr |-> Pow2(lines[i].order)], hdr)

PO_NothingSkipped ==
    po_skipped = [missing_match |-> 0, incomplete_trace |-> 0,
                  invalid_order |-> 0]

\* The line read by the step, when the step reads a line of chk_po's input.
PO_Reads(kinds) ==
    /\ Len(po_lines') = Len(po_lines) + 1
    /\ Last(po_lines').kind \in kinds

PO_Aggregates ==
    <<po_process_data, po_module_data, po_slab_data, po_process_module_pages,
      po_calltrace_data, po_calltrace_index, po_allocations>>

\* C1: at the end of every input of chk_po, unless a skip counter was
\* incremented, the pages of all processes add up to the sum of 2^order
\* over the headers counted in total_allocs.
C1_NoAccountingLoss ==
    PO_NothingSkipped => SumPages(po_process_data) = PO_HeaderPages(po_lines)

\* C2: in chk_po, an open allocation is finalized (its 2^order pages are
\* added to the aggregates) by the next blank line and by the next
\* "Page allocated" header alike.
C2_FinalizedAtBlankOrHeader ==
    [][(po_in_trace /\ PO_Reads({"blank", "alloc"}))
         => SumPages(po_process_data')
              = SumPages(po_process_data) + Pow2(po_current.order)]_vars

\* The allocation blocks of a file read by page_owner_info that are closed
\* by a blank line: <<h, b>> with h a header that matches, b the first blank
\* line after it, and no other header between them.
PI_FinalizedBlocks(lines) ==
    {hb \in (1..Len(lines)) \X (1..Len(lines)) :
        /\ hb[1] < hb[2]
        /\ StartsWithPageAllocated(lines[hb[1]]) /\ PI_Match(lines[hb[1]])
        /\ lines[hb[2]].kind = "blank"
        /\ \A i \in (hb[1] + 1)..(hb[2] - 1) :
               lines[i].kind \in {"pfn", "trace"}}

IsTraceLine(l) == l.kind = "trace"

\* The call-trace lines of a block.
BlockTrace(lines, hb) ==
    SelectSeq(SubSeq(lines, hb[1] + 1, hb[2] - 1), IsTraceLine)

\* C3: in page_owner_info, the finalized blocks with one and the same
\* sequence of call-trace lines are counted in one bucket, whose count is
\* the number of those blocks and whose pages is the sum of their 2^order.
C3_IdenticalTracesOneBucket ==
    pi_error = "none" =>
        \A hb \in PI_FinalizedBlocks(pi_lines) :
            LET t == BlockTrace(pi_lines, hb)
                same == {x \in PI_FinalizedBlocks(pi_lines) :
                            BlockTrace(pi_lines, x) = t}
            IN  /\ PI_TraceKey(t) \in DOMAIN pi_calltraces
                /\ pi_calltraces[PI_TraceKey(t)].count = Cardinality(same)
                /\ pi_calltraces[PI_TraceKey(t)].pages =
                       SumOver([x \in same |-> Pow2(pi_lines[x[1]].order)],
                               same)

\* The step reads the blank line that closes the block
\* "Page allocated via order 3, mask ..., pid 100, tgid 100 (myapp), ts 12345 ns"
\* " kmem_cache_alloc+0x10 [mymod]".
C4_ScenarioBlockCloses ==
    /\ Len(po_lines') = Len(po_lines) + 1
    /\ Len(po_lines') >= 3
    /\ SubSeq(po_lines', Len(po_lines') - 2, Len(po_lines'))
           = <<HdrScenario, TrSlabMod, BlankLine>>

C4_Zero == [allocs |-> 0, pages |-> 0]

\* d' is d with one allocation of the given pages added under key k.
C4_Added(d, dnew, k, pages) ==
    /\ DOMAIN dnew = (DOMAIN d) \cup {k}
    /\ dnew[k].allocs = Get(d, k, C4_Zero).allocs + 1
    /\ dnew[k].pages = Get(d, k, C4_Zero).pages + pages
    /\ \A x \in DOMAIN d : x # k => dnew[x] = d[x]

\* C4: in chk_po, the scenario block adds exactly 8 pages and 1 allocation
\* to process "myapp", to module "mymod" and to slab function
\* "kmem_cache_alloc", whatever was read before it; read as the whole file
\* it leaves exactly these three entries.
C4_ScenarioBlock ==
    /\ [](po_lines = <<HdrScenario, TrSlabMod, BlankLine>> =>
            /\ po_process_data = ("myapp" :> [allocs |-> 1, pages |-> 8])
            /\ po_module_data = ("mymod" :> [allocs |-> 1, pages |-> 8])
            /\ po_slab_data =
                   ("kmem_cache_alloc" :> [allocs |-> 1, pages |-> 8]))
    /\ [][C4_ScenarioBlockCloses =>
            /\ C4_Added(po_process_data, po_process_data', "myapp", 8)
            /\ C4_Added(po_module_data, po_module_data', "mymod", 8)
            /\ C4_Added(po_slab_data, po_slab_data', "kmem_cache_alloc", 8)
         ]_vars

\* The scenario block was read after some other block, and myapp, mymod
\* and kmem_cache_alloc hold its 8 pages.
C4_Witness ==
    /\ Len(po_lines) > 3
    /\ SubSeq(po_lines, Len(po_lines) - 2, Len(po_lines))
           = <<HdrScenario, TrSlabMod, BlankLine>>
    /\ Cardinality(DOMAIN po_process_data) > 1
    /\ po_process_data["myapp"].pages = 8
    /\ po_module_data["mymod"].pages = 8
    /\ po_slab_data["kmem_cache_alloc"].pages = 8

\* Sum of 2^order over the headers of a file read by page_owner_info that
\* carry "order N, mask 0x..." only.
PI_MinimalHeaders(lines) ==
    {i \in 1..Len(lines) :
        /\ StartsWithPageAllocated(lines[i]) /\ PI_Match(lines[i])
        /\ lines[i].pid = NoneInt}

\* C5: in page_owner_info, the pages of the headers without pid, tgid,
\* process and timestamp are aggregated under the process "Unknown", and
\* the per-process report is printed without an error.
C5_MinimalHeaderUnderUnknown ==
    LET hdr == PI_MinimalHeaders(pi_lines)
        kb == SumOver([i \in hdr |-> 4 * Pow2(pi_lines[i].order)], hdr)
    IN  /\ hdr # {} =>
              /\ "Unknown" \in DOMAIN pi_process_data
              /\ pi_process_data["Unknown"].memory_kb = kb
        /\ show_allocations_by_process(pi_process_data, PI_TopProcesses).kind
               = "printed"

\* C6: in page_owner_info, a "Page allocated" line that fails the header
\* pattern never makes the run fail: no exception ends the parse and the
\* per-order report can be printed.  (No other line makes these fail.)
C6_MalformedHeaderNeverFails ==
    /\ pi_error = "none"
    /\ show_allocations_by_order(pi_by_order).kind = "printed"

\* C7: in chk_po, a blank line read while no allocation is open adds one
\* to incomplete_trace, leaves the parser idle and changes no aggregate.
C7_BlankIdleCounted ==
    [][(~po_in_trace /\ PO_Reads({"blank"}))
         => /\ po_skipped' = [po_skipped EXCEPT !.incomplete_trace = @ + 1]
            /\ ~po_in_trace'
            /\ UNCHANGED PO_Aggregates]_vars

\* The step reads a "Page allocated" line without "order N, mask".
C8_ReadsMalformedHeader ==
    /\ PO_Reads({"alloc"})
    /\ ~PO_MatchType1(Last(po_lines'))

\* C8 as claimed: in chk_po, such a line adds one to invalid_order and to
\* no other skip counter, leaves the parser idle and changes no aggregate.
C8_InvalidOrderCounted ==
    [][C8_ReadsMalformedHeader
         => /\ po_skipped' = [po_skipped EXCEPT !.invalid_order = @ + 1]
            /\ ~po_in_trace'
            /\ UNCHANGED PO_Aggregates]_vars

\* C8 as amended: in chk_po, such a line adds one to missing_match and to
\* no other skip counter, leaves the parser idle and changes no aggregate.
C8_MissingMatchCounted ==
    [][C8_ReadsMalformedHeader
         => /\ po_skipped' = [po_skipped EXCEPT !.missing_match = @ + 1]
            /\ ~po_in_trace'
            /\ UNCHANGED PO_Aggregates]_vars

\* A malformed header was read while an allocation was open, after an
\* earlier block had been finalized: it is counted, the parser is idle.
C8_Witness ==
    /\ Len(po_lines) >= 2
    /\ ~PO_MatchType1(Last(po_lines)) /\ Last(po_lines).kind = "alloc"
    /\ PO_MatchType1(po_lines[Len(po_lines) - 1])
    /\ po_skipped.missing_match = 1
    /\ po_process_data # EmptyMap
    /\ ~po_in_trace

\* C9: the Total row of a truncated table is the sum over all entries of
\* the aggregate (for show_processes_for_module, all entries of the
\* module), also for more entries than rows displayed.
C9_TotalRowOverFullAggregate ==
    LET mine == IF view_report.kind = "show_processes_for_module"
                THEN {i \in 1..Len(view_entries) :
                         view_entries[i].mod = view_report.module}
                ELSE 1..Len(view_entries)
        pages == [i \in mine |-> View_Stats(view_entries[i]).pages]
        allocs == [i \in mine |-> View_Stats(view_entries[i]).allocs]
    IN  view_report.kind \in {"show_top", "show_processes_for_module",
                              "show_allocations_by_module"}
            => /\ view_report.total_pages = SumOver(pages, mine)
               /\ view_report.total_allocs = SumOver(allocs, mine)

\* C10: in chk_oom_summary, a section without total_pages_ram (or with 0)
\* gets a diagnostic in place of its report and yields no unaccounted
\* value; the other sections of the log are reported.
C10_MissingTotalDiagnosed ==
    oom_pc = "done" =>
        \A n \in 1..Len(oom_reports) :
            IF oom_list[n].memory_info["total_pages_ram"] = 0
            THEN oom_reports[n].kind = "MemTotal not found"
            ELSE oom_reports[n].kind = "summary"

\* The things of one kind that a meminfo tool printed.
MemPrinted(kind) == {i \in 1..Len(mem_out) : mem_out[i].kind = kind}

NoDuplicates(s) == Cardinality(SeqRange(s)) = Len(s)

\* C11: total = (sum of the accounted fields) + unaccounted, exactly, for
\* chk_oom_summary.calculate_memory_usage and chk_mem.calculate_unaccounted,
\* where the accounted fields are those the verbose formula prints: each
\* is subtracted once, and nothing else is subtracted.
C11_UnaccountedConservation ==
    /\ oom_pc = "done" =>
           /\ NoDuplicates(OOM_FormulaFields)
           /\ \A n \in 1..Len(oom_reports) :
                  PageSizeKb * oom_reports[n].total_memory_pages
                      = PageSizeKb * SumOver(oom_list[n].memory_info,
                                             SeqRange(OOM_FormulaFields))
                        + oom_list[n].total_hugepages_memory_kb
                        + oom_reports[n].unaccounted_scaled
    /\ (mem_tool = "chk_mem" /\ mem_pc \in {"print_report", "done"}) =>
           /\ NoDuplicates(mem_accounted)
           /\ mem_total = SumOver(mem_meminfo, SeqRange(mem_accounted))
                              + mem_unaccounted
    /\ (mem_tool = "chk_mem" /\ mem_pc = "done" /\ mem_verbose) =>
           \A i \in MemPrinted("formula") :
               /\ mem_out[i].fields = mem_accounted
               /\ mem_out[i].value = mem_unaccounted
               /\ mem_out[Len(mem_out)].value = mem_unaccounted

\* A report of chk_oom_summary over a section with hugepages and a
\* free_cma count.
C11_Witness ==
    /\ oom_pc = "done"
    /\ \E n \in 1..Len(oom_reports) :
           /\ oom_list[n].memory_info["free_cma"] > 0
           /\ oom_list[n].total_hugepages_memory_kb > 0

\* The lines of the section of the n-th anchor line of the log.
OOM_SectionOf(log, n) ==
    LET anchors == {i \in 1..Len(log) : log[i].kind = "anchor"}
        a == CHOOSE x \in anchors : Cardinality({b \in anchors : b < x}) = n - 1
        later == {b \in anchors : b > a}
        end == IF later = {} THEN Len(log)
               ELSE (CHOOSE b \in later : \A c \in later : b <= c) - 1
    IN  (a + 1)..end

OOM_AnchorCount(log) ==
    Cardinality({i \in 1..Len(log) : log[i].kind = "anchor"})

\* C12: every Mem-Info section of the log gets a report, and a section
\* that holds total_pages_ram 1000000, free 200000, active_anon 300000,
\* inactive_anon 100000, reserved 5000 and nothing else is reported with
\* 400000 pages of anonymous memory and 395000 unaccounted pages; so a log
\* of two such sections gives two such reports.
C12_ScenarioSectionsReported ==
    oom_pc = "done" =>
        /\ Len(oom_reports) = OOM_AnchorCount(oom_log)
        /\ \A n \in 1..Len(oom_reports) :
               LET section == OOM_SectionOf(oom_log, n)
               IN  (section # {} /\ \A i \in section : oom_log[i] = ScenarioLine)
                   => /\ oom_reports[n].kind = "summary"
                      /\ oom_reports[n].total_memory_pages = 1000000
                      /\ oom_list[n].memory_info["active_anon"]
                             + oom_list[n].memory_info["inactive_anon"] = 400000
                      /\ oom_reports[n].unaccounted_scaled = PageSizeKb * 395000

C12_Witness ==
    /\ oom_pc = "done"
    /\ oom_log = <<AnchorLine, ScenarioLine, AnchorLine, ScenarioLine>>
    /\ Len(oom_reports) = 2

\* C13: extract_memory_info returns one entry per line that contains
\* 'Mem-Info', in file order, and every value of an entry comes from the
\* lines between its anchor and the next anchor (or the end of the file);
\* without an anchor the list is empty, 'No OOM events found' is reported
\* and the run ends with no report printed.
C13_OneEntryPerAnchor ==
    /\ oom_pc = "no_events" => oom_list = <<>> /\ oom_reports = <<>>
    /\ oom_pc \in {"done", "no_events"} =>
           (oom_pc = "no_events" <=> OOM_AnchorCount(oom_log) = 0)
    /\ oom_pc = "done" =>
           /\ Len(oom_list) = OOM_AnchorCount(oom_log)
           /\ \A n \in 1..Len(oom_list) :
                  LET section == OOM_SectionOf(oom_log, n)
                      Own(key) ==
                          UNION {{<<i, f>> :
                                     f \in {g \in 1..Len(oom_log[i].fields) :
                                               LabelMatches(key,
                                                   oom_log[i].fields[g].label)}} :
                                 i \in section}
                      nodes == {i \in section : oom_log[i].kind = "node"}
                  IN  /\ oom_log[oom_list[n].anchor].kind = "anchor"
                      /\ \A k \in 1..(n - 1) :
                             oom_list[k].anchor < oom_list[n].anchor
                      /\ \A key \in PatternKeys :
                             IF Own(key) = {}
                             THEN oom_list[n].memory_info[key] = 0
                             ELSE \E p \in Own(key) :
                                      oom_list[n].memory_info[key]
                                          = oom_log[p[1]].fields[p[2]].value
                      /\ nodes = {} =>
                             /\ oom_list[n].total_hugepages_memory_kb = 0
                             /\ oom_list[n].used_hugepages_memory_kb = 0

\* Two anchor lines, the first directly followed by the second, whose
\* section holds the fields.
C13_Witness ==
    /\ oom_pc = "done"
    /\ oom_log = <<AnchorLine, AnchorLine, ScenarioLine>>
    /\ Len(oom_list) = 2
    /\ oom_list[1].memory_info["free"] = 0
    /\ oom_list[2].memory_info["free"] = 200000

\* The line read by the step, when the step reads a line of the OOM log.
EV_Reads == Len(ev_lines') = Len(ev_lines) + 1

\* The stripped lines from..to of the log.
EV_Texts(lines, from, to) ==
    [n \in 1..(to - from + 1) |-> EV_Strip(lines[from + n - 1])]

\* The last n elements of a sequence.
LastN(s, n) == SubSeq(s, Len(s) - n + 1, Len(s))

\* C14: an OOM event that is still open at the end of the input is in the
\* result of parse_oom_log with every line from its 'invoked oom-killer'
\* line to the end of the file; a 'Kill(ed) process' line ends the event,
\* and the lines after it, up to the next 'invoked oom-killer' line, are
\* added to no event.
C14_OpenEventKept ==
    /\ [](ev_current # NoneStr =>
             LET starts == {i \in 1..Len(ev_lines) : ev_lines[i].invoked}
                 start == CHOOSE i \in starts : \A j \in starts : j <= i
                 count == Len(ev_lines) - start + 1
             IN  /\ starts # {}
                 /\ EV_Strip(ev_lines[start]) = ev_current
                 /\ ev_current \in DOMAIN ev_events
                 /\ Len(ev_events[ev_current]) >= count
                 /\ LastN(ev_events[ev_current], count)
                        = EV_Texts(ev_lines, start, Len(ev_lines)))
    /\ [][(EV_Reads /\ ev_current # NoneStr /\ Last(ev_lines').kill
               /\ ~Last(ev_lines').invoked)
              => ev_current' = NoneStr]_vars
    /\ [][(EV_Reads /\ ev_current = NoneStr /\ ~Last(ev_lines').invoked)
              => ev_events' = ev_events /\ ev_current' = NoneStr]_vars

\* A closed event, a line after it, and a second event open at the end.
C14_Witness ==
    /\ ev_lines = <<EvInvokedA, EvKilled, EvTable, EvInvokedB, EvOther>>
    /\ ev_current = EV_Strip(EvInvokedB)
    /\ ev_events[EV_Strip(EvInvokedA)]
           = <<EV_Strip(EvInvokedA), EV_Strip(EvKilled)>>
    /\ ev_events[EV_Strip(EvInvokedB)]
           = <<EV_Strip(EvInvokedB), EV_Strip(EvOther)>>

\* The value of a hugepage field of a line of the log, NoneInt if the
\* line does not carry it.
HugeField(l, label) ==
    LET at == {f \in 1..Len(l.fields) : l.fields[f].label = label}
    IN  IF at = {} THEN NoneInt ELSE l.fields[CHOOSE f \in at : TRUE].value

\* C15: the hugepage totals of an entry are total_kb = sum of
\* hugepages_total * hugepages_size and used_kb = sum of (hugepages_total -
\* hugepages_free) * hugepages_size over exactly the 'Node N' lines of its
\* section that carry all three fields; other lines add nothing, no such
\* line gives (0, 0), and used_kb <= total_kb when free <= total on every
\* such line.
C15_HugepageTotals ==
    oom_pc = "done" =>
        \A n \in 1..Len(oom_list) :
            LET section == OOM_SectionOf(oom_log, n)
                nodes == {i \in section :
                             /\ oom_log[i].kind = "node"
                             /\ \A label \in {"hugepages_total", "hugepages_free",
                                               "hugepages_size"} :
                                    HugeField(oom_log[i], label) # NoneInt}
                total(i) == HugeField(oom_log[i], "hugepages_total")
                free(i) == HugeField(oom_log[i], "hugepages_free")
                size(i) == HugeField(oom_log[i], "hugepages_size")
                total_kb == SumOver([i \in nodes |-> total(i) * size(i)], nodes)
                used_kb == SumOver([i \in nodes |-> (total(i) - free(i)) * size(i)],
                                   nodes)
            IN  /\ oom_list[n].total_hugepages_memory_kb = total_kb
                /\ oom_list[n].used_hugepages_memory_kb = used_kb
                /\ nodes = {} =>
                       /\ oom_list[n].total_hugepages_memory_kb = 0
                       /\ oom_list[n].used_hugepages_memory_kb = 0
                /\ (\A i \in nodes : free(i) <= total(i)) =>
                       oom_list[n].used_hugepages_memory_kb
                           <= oom_list[n].total_hugepages_memory_kb

\* A section of two full node lines around one without hugepages_size.
C15_Witness ==
    /\ oom_pc = "done"
    /\ oom_log = <<AnchorLine, NodeLine(2, 1, 2048), NodeLineNoSize,
                   NodeLine(3, 5, 1024)>>
    /\ oom_list[1].total_hugepages_memory_kb = 2 * 2048 + 3 * 1024
    /\ oom_list[1].used_hugepages_memory_kb = 1 * 2048 - 2 * 1024

\* The value the meminfo file gives for a field, NoneInt if it has no
\* line with an integer for it.
MemInput(key) ==
    LET at == {i \in 1..Len(mem_file) :
                  mem_file[i].key = key /\ mem_file[i].value # NoneInt}
    IN  IF at = {} THEN NoneInt ELSE mem_file[CHOOSE i \in at : TRUE].value

\* The run has computed its accounted field list.
MemAccountedComputed == mem_pc \in {"print_report", "print", "done"}

AnonFields == {"AnonPages", "Active(anon)", "Inactive(anon)"}

MemEnded == mem_pc \in {"done", "exit"}

\* C17: without MemTotal in the meminfo input, chk_mem and
\* chk_unaccounted_memory end the run with an error message and a non-zero
\* exit status and print no row of the report table; a table is printed
\* only after MemTotal, AnonPages and the hugepage amount are there.
C17_MemTotalMandatory ==
    /\ MemInput("MemTotal") = NoneInt =>
           /\ \A kind \in MemTableKinds : MemPrinted(kind) = {}
           /\ mem_pc # "done"
           /\ MemEnded =>
                  /\ mem_exit # 0 /\ mem_exit # NoneInt
                  /\ MemPrinted("error") \cup MemPrinted("traceback") # {}
    /\ (\E kind \in MemTableKinds : MemPrinted(kind) # {}) =>
           /\ {"MemTotal", "AnonPages", "HugePages"} \subseteq DOMAIN mem_meminfo
           /\ mem_total = MemInput("MemTotal")
           /\ mem_exit = 0
           /\ MemPrinted("error") \cup MemPrinted("traceback") = {}

\* chk_mem got past AnonPages and the hugepages and ended at the missing
\* MemTotal.
C17_Witness ==
    /\ mem_tool = "chk_mem"
    /\ mem_pc = "exit"
    /\ MemInput("MemTotal") = NoneInt
    /\ MemInput("AnonPages") # NoneInt
    /\ mem_exit = 1
    /\ \E i \in MemPrinted("error") : mem_out[i].field = "MemTotal not found"

\* chk_po.py lines 129-137: the names of the rows of the table that
\* show_top prints for an aggregate whose keys were inserted in 'order'.
PO_ShowTopRows(data, order, top_n) ==
    LET idx == 1..Len(order)
        Rank(i) == Cardinality({j \in idx :
                                   \/ data[order[j]].pages > data[order[i]].pages
                                   \/ /\ data[order[j]].pages = data[order[i]].pages
                                      /\ j < i}) + 1
        shown == IF Len(order) < top_n THEN Len(order) ELSE top_n
    IN  [r \in 1..shown |-> order[CHOOSE i \in idx : Rank(i) = r]]

\* C18: two runs of chk_po on the same input print the same Modules
\* table: the same rows in the same order, ties included.
C18_RunsPrintSameModules ==
    PO_ShowTopRows(po_module_data, po_module_order, TopN)
        = PO_ShowTopRows(po_module_data, po_module_order_2, TopN)

\* A block as the dump writes it: a header that parses, the PFN line,
\* the trace lines and the blank line.
SI_IsBlock(s) ==
    /\ Len(s) >= 3
    /\ StartsWithPageAllocated(s[1]) /\ SI_Match(s[1])
    /\ s[2].kind = "pfn"
    /\ s[Len(s)].kind = "blank"
    /\ \A i \in 3..(Len(s) - 1) : s[i].kind = "trace"

\* C19: when the lines read are one block (header, PFN line, trace lines,
\* blank line), the block's 2^order pages are in slab usage if and only if
\* one of its trace lines contains a SLAB_FUNCTIONS name, in non-slab usage
\* otherwise, and in exactly one of the two, once.
C19_BlockClassifiedByItsTrace ==
    SI_IsBlock(si_lines) =>
        LET order == si_lines[1].order
            slab  == \E i \in 3..(Len(si_lines) - 1) : SI_SlabLine(si_lines[i])
            once  == Put(EmptyMap, order, Pow2(order))
        IN  /\ si_error = "none"
            /\ si_slab_usage = (IF slab THEN once ELSE EmptyMap)
            /\ si_non_slab_usage = (IF slab THEN EmptyMap ELSE once)

\* The line read by the step, when the step reads a line of
\* page_owner_info's input.
PI_Reads(kinds) ==
    /\ Len(pi_lines') = Len(pi_lines) + 1
    /\ Last(pi_lines').kind \in kinds

\* A header that parses, PFN and trace lines in any order, a blank line.
C20_IsBlock(s, parses(_)) ==
    /\ Len(s) >= 2
    /\ StartsWithPageAllocated(s[1]) /\ parses(s[1])
    /\ s[Len(s)].kind = "blank"
    /\ \A i \in 2..(Len(s) - 1) : s[i].kind \in {"pfn", "trace"}

\* The trace lines of a block.
C20_TraceOf(s) == SelectSeq(s, LAMBDA l : l.kind = "trace")

C21_AggregatesChangeAtEndOfTrace ==
    /\ [][(PO_Aggregates' # PO_Aggregates)
            => (po_in_trace /\ PO_Reads({"blank"}))]_vars
    /\ [][PO_Reads({"blank"}) => ~po_in_trace']_vars

\* A file with a header, a PFN line, a trace line and two blank lines was
\* read: the first blank line counted the allocation, the second came
\* while idle.
C21_Witness ==
    /\ Len(po_lines) = 5
    /\ po_lines[2].kind = "pfn" /\ po_lines[3].kind = "trace"
    /\ po_lines[4].kind = "blank" /\ po_lines[5].kind = "blank"
    /\ Len(po_allocations) = 1
    /\ ~po_in_trace

\* The modules that the lines of a trace name in brackets.
C22_Named(trace) ==
    {x \in {trace[i].mod : i \in DOMAIN trace} : x # ""}

\* dnew is d with one allocation of the given pages added under every key
\* of keys, and nothing else changed.
C22_AddedOnce(d, dnew, keys, pages) ==
    /\ DOMAIN dnew = (DOMAIN d) \cup keys
    /\ \A k \in keys :
           /\ dnew[k].allocs = Get(d, k, C4_Zero).allocs + 1
           /\ dnew[k].pages = Get(d, k, C4_Zero).pages + pages
    /\ \A x \in (DOMAIN d) \ keys : dnew[x] = d[x]

\* C22: in chk_po, the step that finalizes an allocation adds 1 allocation
\* and 2^order pages to every module its trace names in brackets, once
\* however many lines name it, and to the pair of its process and that
\* module; no other module or pair changes.
C22_ModuleCountedOncePerAllocation ==
    [][(po_in_trace /\ PO_Reads({"blank"}))
         => LET named == C22_Named(po_calltrace)
                pages == Pow2(po_current.order)
            IN  /\ C22_AddedOnce(po_module_data, po_module_data', named,
                                 pages)
                /\ C22_AddedOnce(po_process_module_pages,
                                 po_process_module_pages',
                                 {<<po_current.process, x>> : x \in named},
                                 pages)]_vars

\* An allocation whose trace names mymod on two lines and xfs on one was
\* finalized, and each module holds it once.
C22_Witness ==
    /\ po_lines = <<HdrScenario, TrSlabMod, TrSlabMod, TrFaultMod, BlankLine>>
    /\ po_module_data = ("mymod" :> [allocs |-> 1, pages |-> 8])
                         @@ ("xfs" :> [allocs |-> 1, pages |-> 8])
    /\ DOMAIN po_process_module_pages
           = {<<"myapp", "mymod">>, <<"myapp", "xfs">>}

\* The call-trace lines of a recorded trace: its lines after the header.
C23_TraceLines(t) == Tail(t)

\* C23: in page_owner_most_common, the blocks of one order whose call-trace
\* lines are identical (and not none) are counted in one bucket, whose
\* count is the number of those blocks, whatever pid, tgid and timestamp
\* their headers carry.
C23_SameTraceSameBucket ==
    mc_pc = "done" =>
        LET idx == DOMAIN mc_call_traces
            counts == MC_TraceCounts(mc_call_traces)
            Alike(i, j) ==
                /\ C23_TraceLines(mc_call_traces[j].trace)
                       = C23_TraceLines(mc_call_traces[i].trace)
                /\ mc_call_traces[j].order = mc_call_traces[i].order
        IN  \A i \in idx :
                C23_TraceLines(mc_call_traces[i].trace) # <<>> =>
                    /\ counts[mc_call_traces[i].trace].count =
                           Cardinality({j \in idx : Alike(i, j)})
                    /\ \A j \in idx :
                           Alike(i, j) => mc_call_traces[j].trace
                                             = mc_call_traces[i].trace

\* The quotient q is the whole number n.
C24_IsWhole(q, n) == q.num = n * q.den

\* C24: in every report of chk_oom_summary, Swap Total and Swap Free are
\* the kB amounts of the section divided by the page size with integer
\* division, and Swap Used is their difference in whole pages.
C24_SwapInWholePages ==
    \A n \in 1..Len(oom_reports) :
        LET info == oom_list[n].memory_info
            total == info["total_swap"] \div PageSizeKb
            free == info["free_swap"] \div PageSizeKb
        IN  /\ C24_IsWhole(oom_reports[n].swap_total_pages, total)
            /\ C24_IsWhole(oom_reports[n].swap_free_pages, free)
            /\ C24_IsWhole(oom_reports[n].swap_used_pages, total - free)

\* The values that follow the label of a key in the lines of a section.
C25_OwnValues(log, section, key) ==
    UNION {{log[i].fields[j].value :
               j \in {x \in DOMAIN log[i].fields :
                          log[i].fields[x].label = key}} : i \in section}

\* C25: for every section and every key of the pattern table whose label
\* occurs in the section, the value stored under the key is one that
\* follows that label, in whatever order the labels stand; the value of
\* active_anon is never taken from inactive_anon.
C25_ValueFollowsOwnLabel ==
    oom_pc = "done" =>
        \A n \in 1..Len(oom_list) :
            \A key \in PatternKeys :
                LET own == C25_OwnValues(oom_log, OOM_SectionOf(oom_log, n),
                                         key)
                IN  own # {} => oom_list[n].memory_info[key] \in own

\* C26: parse_oom_log holds one event for every 'invoked oom-killer' line
\* it has read; events whose start lines read the same are not merged.
C26_OneEventPerInvokedLine ==
    Cardinality(DOMAIN ev_events)
        = Cardinality({i \in DOMAIN ev_lines : ev_lines[i].invoked})

\* C27: in chk_po, after every input, the pages of slab_data sum to no
\* more than the pages of process_data, and the allocations of slab_data
\* to no more than the finalized allocations.
C27_SlabWithinTotals ==
    /\ SumPages(po_slab_data) <= SumPages(po_process_data)
    /\ SumOver([k \in DOMAIN po_slab_data |-> po_slab_data[k].allocs],
               DOMAIN po_slab_data) <= Len(po_allocations)

\* C28: in page_owner_info, after every input that was read to its end,
\* every key of allocations_by_order is an order and the counts sum to the
\* number of headers that were parsed.
C28_ByOrderCountsParsedHeaders ==
    pi_error = "none" =>
        /\ NoneInt \notin DOMAIN pi_by_order
        /\ SumOver(pi_by_order, DOMAIN pi_by_order)
              = Cardinality({i \in DOMAIN pi_lines :
                                /\ StartsWithPageAllocated(pi_lines[i])
                                /\ PI_Match(pi_lines[i])})

\* C29: a run of chk_unaccounted_memory on a meminfo file that every line
\* of which parses and that holds MemTotal, HugePages_Total, Hugepagesize
\* and AnonPages ends with the report printed, with or without
\* Active(anon) and Inactive(anon) in the file.
C29_OptionalAnonFieldsNeverAbort ==
    (/\ mem_tool = "chk_unaccounted_memory"
     /\ MemEnded
     /\ ~UM_ParseFails(mem_file)
     /\ \A key \in {"MemTotal", "HugePages_Total", "Hugepagesize",
                     "AnonPages"} : MemInput(key) # NoneInt)
        => /\ mem_pc = "done"
           /\ MemPrinted("Unaccounted") # {}

\* C30: for a count with the writer-locked bit set, no reader counted, the
\* reserved bits and bit 63 clear, and an owner with a task address and
\* without the reader-owned flag, check_integrity reports no issue.
C30_WriteLockedIsConsistent ==
    (/\ rw_pc = "done"
     /\ rw_decoded.writer_locked = 1
     /\ rw_count.readers = 0 /\ rw_count.top = 0
     /\ rw_count.low8 < 8
     /\ rw_owner.task # 0
     /\ rw_owner.reader_owned = 0)
        => rw_issues = <<>>

====
